---------------------------- MODULE Spec2Model ----------------------------
(*************************************************************************)
(* Verification model of the s-analystexe repository.                    *)
(*                                                                       *)
(*   src/server/app.py   the matcher API (Flask): structured extraction, *)
(*                       calculate_score, score_to_ten, build_matches,   *)
(*                       generate_explanation, analyze_vacancy           *)
(*   src/backend/app.py  the screener backend (http.server): session     *)
(*                       check, text-length validation, call_gigachat    *)
(*                       with its ordered model fallback, the state file *)
(*                       and the Telegram login handshake                *)
(*                                                                       *)
(* Conventions.  A Python str that the code transforms (skills) is a     *)
(* tuple of one-character strings, so that lower() and strip() are       *)
(* computed.  A Python float is an exact rational <<n, d>>; where the    *)
(* double arithmetic may differ from the exact value (a tie of round()   *)
(* reached through a non-dyadic intermediate) the direction is the       *)
(* unknown but fixed value fp_up.  Python's None is the string "None".   *)
(*************************************************************************)
EXTENDS Integers, Sequences, FiniteSets, TLC

VARIABLES
    fp_up,          \* double rounding direction at an inexact tie (fixed)
    fn_in,          \* score harness: [job, resume, weights] given to calculate_score
    fn_out,         \* score harness: results of the calls made so far
    MATCHER_API_KEY,\* server: the configured API key (src/server/app.py:35)
    now,            \* server: time.time()
    token_cache,    \* server: token_cache (src/server/app.py:40)
    req,            \* server: the analyze_vacancy request being handled
    prev,           \* server: summary of an earlier successful request
    bcfg,           \* backend: process configuration (models, auth)
    breq,           \* backend: the do_POST /api/analyze request being handled
    threads,        \* the threads inside the token getter of the backend
                    \* (SpecThreads) or of the server (SpecCache), or the
                    \* backend threads writing the state file (SpecLogin)
    poller,         \* backend: position of poll_telegram in its updates
    login           \* backend: record of the login handshake so far

vars == <<fp_up, fn_in, fn_out, MATCHER_API_KEY, now, token_cache, req, prev,
          bcfg, breq, threads, poller, login>>

score_vars == <<fn_in, fn_out>>
server_vars == <<MATCHER_API_KEY, now, token_cache, req, prev>>
backend_vars == <<bcfg, breq>>

None == "None"

-----------------------------------------------------------------------------
(* Bounds of the model *)

MaxYears == 2       \* experience_years range 0..MaxYears
MaxSkills == 2      \* longest hard_skills list of a job record

-----------------------------------------------------------------------------
(* Python str operations on tuples of characters *)

UpperChars == <<"A","B","C","D","E","F","G","H","I","J","K","L","M",
                "N","O","P","Q","R","S","T","U","V","W","X","Y","Z">>
LowerChars == <<"a","b","c","d","e","f","g","h","i","j","k","l","m",
                "n","o","p","q","r","s","t","u","v","w","x","y","z">>

\* code point order of the characters used: space < upper case < lower case
CodePoints == <<" ">> \o UpperChars \o LowerChars

Chars == {CodePoints[i] : i \in DOMAIN CodePoints}

\* ord(c), as the place of c in CodePoints
CharRankOf == [c \in Chars |-> CHOOSE i \in DOMAIN CodePoints : CodePoints[i] = c]
CharRank(c) == CharRankOf[c]

\* str.lower() on one character
LowerCharOf ==
    [c \in Chars |->
        IF \E i \in DOMAIN UpperChars : UpperChars[i] = c
        THEN LowerChars[CHOOSE i \in DOMAIN UpperChars : UpperChars[i] = c]
        ELSE c]
LowerChar(c) == LowerCharOf[c]

\* str.lower()
lower(s) == [i \in DOMAIN s |-> LowerChar(s[i])]

\* "LF" stands for the line feed character
IsSpace(c) == c \in {" ", "LF"}

RECURSIVE lstrip(_)
lstrip(s) ==
    IF s # <<>> /\ IsSpace(Head(s)) THEN lstrip(Tail(s)) ELSE s

RECURSIVE rstrip(_)
rstrip(s) ==
    IF s # <<>> /\ IsSpace(s[Len(s)])
    THEN rstrip(SubSeq(s, 1, Len(s) - 1))
    ELSE s

\* str.strip()
strip(s) == rstrip(lstrip(s))

\* a faulty variant of Normalize: the string is lower-cased and not trimmed
Normalize_unstripped(s) == lower(s)

\* s.lower().strip() (src/server/app.py:251)
Normalize(s) == strip(lower(s))

\* a < b on Python str: lexicographic by code point
RECURSIVE StrLess(_, _)
StrLess(a, b) ==
    IF b = <<>> THEN FALSE
    ELSE IF a = <<>> THEN TRUE
    ELSE IF Head(a) = Head(b) THEN StrLess(Tail(a), Tail(b))
    ELSE CharRank(Head(a)) < CharRank(Head(b))

Range(f) == {f[i] : i \in DOMAIN f}

\* the ascending listing of a finite set of str
RECURSIVE Ascending(_)
Ascending(S) ==
    IF S = {} THEN <<>>
    ELSE LET m == CHOOSE x \in S : \A y \in S \ {x} : StrLess(x, y)
         IN  <<m>> \o Ascending(S \ {m})

\* Iteration order of a Python set of str: it depends on the process's
\* string hash seed.  Seed k lists the set rotated by k places.
SetIter(S, seed) ==
    LET a == Ascending(S)
        n == Len(a)
    IN  IF n = 0 THEN <<>>
        ELSE [i \in 1..n |-> a[((i - 1 + seed) % n) + 1]]

\* a faulty variant of sorted: the iterable is returned as it iterates
sorted_unsorted(xs) == xs

\* sorted(iterable) of str
sorted(xs) == Ascending(Range(xs))

\* a faulty variant of NormSet: the empty str is always a member
NormSet_with_blank(xs) == {Normalize(xs[i]) : i \in DOMAIN xs} \cup {<<>>}

\* set(s.lower().strip() for s in xs)
NormSet(xs) == {Normalize(xs[i]) : i \in DOMAIN xs}

-----------------------------------------------------------------------------
(* Python float as exact rational <<n, d>>, d > 0, n >= 0 *)

RECURSIVE GCD(_, _)
GCD(a, b) == IF b = 0 THEN a ELSE GCD(b, a % b)

\* a faulty variant of Rat: integer division
Rat_whole(n, d) == <<n \div d, 1>>
Rat(n, d) == LET g == GCD(n, d) IN IF g = 0 THEN <<0, 1>> ELSE <<n \div g, d \div g>>
\* a faulty variant of RatAdd: the second term is dropped
RatAdd_first(p, q) == Rat(p[1], p[2])
RatAdd(p, q) == Rat(p[1] * q[2] + q[1] * p[2], p[2] * q[2])
\* a faulty variant of RatMul: the second factor is dropped
RatMul_first(p, q) == Rat(p[1], p[2])
RatMul(p, q) == Rat(p[1] * q[1], p[2] * q[2])
RatDiv(p, q) == Rat(p[1] * q[2], p[2] * q[1])
\* a faulty variant of RatInt: the value is lost
RatInt_zero(n) == <<0, 1>>
RatInt(n) == <<n, 1>>

RECURSIVE IsPow2(_)
IsPow2(d) == IF d = 1 THEN TRUE ELSE IF d % 2 = 1 THEN FALSE ELSE IsPow2(d \div 2)

\* the rational is a double exactly (small values): its denominator is a power of 2
Dyadic(q) == IsPow2(Rat(q[1], q[2])[2])

\* round half to even of an exact value
RoundHalfEven(q) ==
    LET fl == q[1] \div q[2]
        r2 == 2 * (q[1] % q[2])
    IN  IF r2 > q[2] THEN fl + 1
        ELSE IF r2 < q[2] THEN fl
        ELSE IF fl % 2 = 0 THEN fl ELSE fl + 1

\* round(x) of a double x whose exact value is q.  When q is a tie and x was
\* reached through an inexact intermediate, x lies just above or just below
\* the tie: the direction is up.
PyRound(q, inexact, up) ==
    LET fl == q[1] \div q[2]
    IN  IF 2 * (q[1] % q[2]) = q[2] /\ inexact
        THEN (IF up THEN fl + 1 ELSE fl)
        ELSE RoundHalfEven(q)

\* round(x, 2), as an integer number of hundredths
Round2(q) == RoundHalfEven(Rat(100 * q[1], q[2]))

Min(a, b) == IF a < b THEN a ELSE b
\* a faulty variant of Max: the first argument is returned
Max_first(a, b) == a
Max(a, b) == IF a > b THEN a ELSE b

-----------------------------------------------------------------------------
(* Score Calculator and Match Presenter (src/server/app.py) *)

\* DEFAULT_WEIGHTS (src/server/app.py:48)
DEFAULT_WEIGHTS ==
    [education_match |-> 25, experience_match |-> 25,
     hard_skills_match |-> 40, soft_skills_match |-> 10]

\* One entry of a report list.  msg is the f-string's template, s the skill
\* it interpolates, n the numbers it interpolates (formatted to one decimal).
Entry(msg, s, n) == [msg |-> msg, s |-> s, n |-> n]

\* a faulty variant of Entries: only the first element is logged
Entries_head(msg, xs) == IF xs = <<>> THEN <<>> ELSE <<Entry(msg, xs[1], <<>>)>>

\* the entries (f'...{s}' for s in xs)
Entries(msg, xs) == [i \in DOMAIN xs |-> Entry(msg, xs[i], <<>>)]

\* a faulty variant of ExpFloat: the key is not found and the default is taken
ExpFloat_default(d) == 0

\* float(d.get('experience_years') or 0)
ExpFloat(d) == d.experience_years

\* calculate_score (src/server/app.py:214).  rt is the Python runtime the call
\* runs in: rt.hashseed orders set iteration, rt.fp_up is the direction of an
\* inexact tie.  score_details holds hundredths.
calculate_score(job_data, resume_data, weights, rt) ==
    LET \* Education
        edu_score == IF job_data.education # <<>> /\ resume_data.education # <<>>
                     THEN weights.education_match ELSE 0
        strengths1 == IF edu_score > 0
                      THEN <<Entry("Education matches", <<>>, <<>>)>> ELSE <<>>
        missing1 == IF edu_score > 0 THEN <<>>
                    ELSE IF job_data.education # <<>>
                         THEN <<Entry("Education not stated in resume", <<>>, <<>>)>>
                         ELSE <<>>
        \* Experience
        job_exp == ExpFloat(job_data)
        resume_exp == ExpFloat(resume_data)
        exp_full == job_exp > 0 /\ resume_exp >= job_exp
        exp_part == job_exp > 0 /\ ~(resume_exp >= job_exp) /\ resume_exp > 0
        exp_none == job_exp > 0 /\ ~(resume_exp >= job_exp) /\ ~(resume_exp > 0)
        exp_score == IF exp_full THEN RatInt(weights.experience_match)
                     ELSE IF exp_part
                          THEN RatMul(Rat(resume_exp, job_exp), RatInt(weights.experience_match))
                          ELSE RatInt(0)
        exp_inexact == exp_part /\ ~Dyadic(Rat(resume_exp, job_exp))
        exp_entry == Entry("Experience: {resume_exp:.1f} years (required {job_exp:.1f})",
                           <<>>, <<resume_exp, job_exp>>)
        strengths2 == IF exp_full THEN Append(strengths1, exp_entry) ELSE strengths1
        partial2 == IF exp_part THEN <<exp_entry>> ELSE <<>>
        missing2 == IF exp_none
                    THEN Append(missing1, Entry("Experience {job_exp:.1f} years", <<>>, <<job_exp>>))
                    ELSE missing1
        \* Hard skills
        job_skills == NormSet(job_data.hard_skills)
        resume_skills == NormSet(resume_data.hard_skills)
        matched == job_skills \cap resume_skills
        missing == job_skills \ resume_skills
        points_per == Rat(weights.hard_skills_match, Max(1, Cardinality(job_skills)))
        hs_score == IF job_skills # {}
                    THEN RatMul(RatInt(Cardinality(matched)), points_per) ELSE RatInt(0)
        hs_inexact == job_skills # {} /\ matched # {} /\ ~Dyadic(points_per)
        strengths3 == IF job_skills # {} /\ matched # {}
                      THEN strengths2 \o Entries("Skill: {s}", sorted(SetIter(matched, rt.hashseed)))
                      ELSE strengths2
        missing3 == IF job_skills # {} /\ missing # {}
                    THEN missing2 \o Entries("Skill: {s}", sorted(SetIter(missing, rt.hashseed)))
                    ELSE missing2
        \* Soft skills
        job_soft == NormSet(job_data.soft_skills)
        resume_soft == NormSet(resume_data.soft_skills)
        matched_soft == job_soft \cap resume_soft
        soft_per == Rat(weights.soft_skills_match, Max(1, Cardinality(job_soft)))
        ss_score == IF job_soft # {}
                    THEN RatMul(RatInt(Cardinality(matched_soft)), soft_per) ELSE RatInt(0)
        ss_inexact == job_soft # {} /\ matched_soft # {} /\ ~Dyadic(soft_per)
        strengths4 == IF matched_soft # {}
                      THEN strengths3 \o
                           Entries("Soft skill: {s}", sorted(SetIter(matched_soft, rt.hashseed)))
                      ELSE strengths3
        total_score == RatAdd(RatAdd(RatAdd(RatInt(edu_score), exp_score), hs_score), ss_score)
        final_score == Min(100, PyRound(total_score,
                                        exp_inexact \/ hs_inexact \/ ss_inexact, rt.fp_up))
    IN  [score |-> final_score,
         report |-> [missing_required |-> missing3,
                     partial_match |-> partial2,
                     strengths |-> strengths4,
                     score_details |-> [education |-> 100 * edu_score,
                                        experience |-> Round2(exp_score),
                                        hard_skills |-> Round2(hs_score),
                                        soft_skills |-> Round2(ss_score)]]]

\* a faulty variant of score_to_ten: round(score_100 / 10), capped at 10 only
score_to_ten_unclamped(score_100) ==
    IF score_100 < 0 THEN 0 ELSE Min(10, RoundHalfEven(Rat(score_100, 10)))

\* score_to_ten (src/server/app.py:286).  score_100 / 10 is a tie only at
\* k + 0.5, which is a double exactly, so round() is round-half-to-even there.
score_to_ten(score_100) ==
    IF score_100 <= 0 THEN 1
    ELSE Max(1, Min(10, RoundHalfEven(Rat(score_100, 10))))

\* a faulty variant of SkillStatus: any matched skill makes the status match
SkillStatus_lenient(job_set, resume_set) ==
    IF job_set = {} THEN "partial"
    ELSE IF job_set \cap resume_set # {} THEN "match" ELSE "gap"

\* a faulty variant of SkillStatus: a category the job leaves empty is a gap
SkillStatus_gap_when_empty(job_set, resume_set) ==
    IF job_set \cap resume_set = {} THEN "gap"
    ELSE IF job_set \ resume_set = {} THEN "match" ELSE "partial"

\* status of a skills category in build_matches (src/server/app.py:323, 342)
SkillStatus(job_set, resume_set) ==
    IF job_set = {} THEN "partial"
    ELSE LET missing == job_set \ resume_set
             matched == job_set \cap resume_set
         IN  IF missing = {} /\ matched # {} THEN "match"
             ELSE IF matched # {} THEN "partial"
             ELSE "gap"

\* build_matches (src/server/app.py:292); report is unused by the code
build_matches(job_data, resume_data, report, rt) ==
    LET edu_status == IF job_data.education = <<>> THEN "partial"
                      ELSE IF job_data.education # <<>> /\ resume_data.education # <<>>
                           THEN "match" ELSE "gap"
        job_exp == ExpFloat(job_data)
        resume_exp == ExpFloat(resume_data)
        exp_status == IF job_exp <= 0 THEN "partial"
                      ELSE IF resume_exp >= job_exp THEN "match"
                      ELSE IF resume_exp > 0 THEN "partial"
                      ELSE "gap"
        job_skills == NormSet(job_data.hard_skills)
        resume_skills == NormSet(resume_data.hard_skills)
        job_soft == NormSet(job_data.soft_skills)
        resume_soft == NormSet(resume_data.soft_skills)
    IN  << [item |-> "Education", status |-> edu_status,
            comment |-> IF job_data.education # <<>> THEN job_data.education
                        ELSE <<"not specified">>],
           [item |-> "Experience", status |-> exp_status,
            comment |-> IF job_exp > 0
                        THEN <<"{resume_exp:.1f} years (required {job_exp:.1f})",
                               resume_exp, job_exp>>
                        ELSE <<"not specified">>],
           [item |-> "Hard skills", status |-> SkillStatus(job_skills, resume_skills),
            comment |-> IF job_skills # {}
                        THEN <<"join">> \o sorted(SetIter(job_skills, rt.hashseed))
                        ELSE <<<<"not specified">>>>],
           [item |-> "Soft skills", status |-> SkillStatus(job_soft, resume_soft),
            comment |-> IF job_soft # {}
                        THEN <<"join">> \o sorted(SetIter(job_soft, rt.hashseed))
                        ELSE <<<<"not specified">>>>] >>

-----------------------------------------------------------------------------
(* Harness for the pure functions: the inputs are drawn in Init, each call
   runs in a Python process with its own hash seed. *)

BSc == <<"B", "S", "c">>
Educations == {<<>>, BSc}
Years == 0..MaxYears

py == <<"p", "y">>
Py_ == <<"P", "y", " ">>
sql == <<"s", "q", "l">>
tm == <<"t", "m">>
_Tm == <<" ", "T", "m">>
ok == <<"o", "k">>
go == <<"g", "o">>

\* the job's hard_skills: every set of at most MaxSkills of these strings,
\* listed once, and one list that repeats a skill
RawHard == {Py_, sql, go}
JobHardLists ==
    {SetIter(S, 0) : S \in {T \in SUBSET RawHard : Cardinality(T) <= MaxSkills}}
        \cup {<<Py_, sql, Py_>>}
ResumeHardLists == {<<>>, <<py>>, <<go, sql, py, py>>}
JobSoftLists == {<<>>, <<tm, ok, go>>}
ResumeSoftLists == {<<>>, <<_Tm>>, <<ok, tm, go>>}

JobRecords ==
    [education : Educations, experience_years : Years,
     hard_skills : JobHardLists, soft_skills : JobSoftLists]
ResumeRecords ==
    [education : Educations, experience_years : Years,
     hard_skills : ResumeHardLists, soft_skills : ResumeSoftLists]

\* weight configurations: non-negative, summing to 100
WeightConfigs ==
    {DEFAULT_WEIGHTS,
     [education_match |-> 0, experience_match |-> 35,
      hard_skills_match |-> 33, soft_skills_match |-> 32],
     [education_match |-> 50, experience_match |-> 0,
      hard_skills_match |-> 20, soft_skills_match |-> 30]}

\* two string hash seeds: two iteration orders of every set
HashSeeds == {0, 1}

Runtime(seed) == [hashseed |-> seed, fp_up |-> fp_up]

\* the variables of the other specifications, parked
ServerIdle ==
    /\ MATCHER_API_KEY = <<>> /\ now = 0 /\ token_cache = None
    /\ req = None /\ prev = None
BackendIdle == bcfg = None /\ breq = None
ThreadsIdle == threads = <<>> /\ poller = None /\ login = None

\* the worked example of the scoring rules: a job asking for a degree, three
\* years and two skills, a resume with no degree, three years and one of them
Bachelor == <<"B", "a", "c", "h", "e", "l", "o", "r">>
python == <<"p", "y", "t", "h", "o", "n">>
WorkedExample ==
    [job |-> [education |-> Bachelor, experience_years |-> 3,
              hard_skills |-> <<sql, python>>, soft_skills |-> <<>>],
     resume |-> [education |-> <<>>, experience_years |-> 3,
                 hard_skills |-> <<python>>, soft_skills |-> <<>>],
     weights |-> DEFAULT_WEIGHTS]

\* a resume one year short of a long requirement and complete otherwise
NearlyEnough ==
    [job |-> [education |-> BSc, experience_years |-> 100,
              hard_skills |-> <<py>>, soft_skills |-> <<tm>>],
     resume |-> [education |-> BSc, experience_years |-> 99,
                 hard_skills |-> <<py>>, soft_skills |-> <<tm>>],
     weights |-> DEFAULT_WEIGHTS]

InitScore ==
    /\ fp_up \in BOOLEAN
    /\ ThreadsIdle
    /\ fn_in \in [job : JobRecords, resume : ResumeRecords, weights : WeightConfigs]
                  \cup {WorkedExample, NearlyEnough}
    /\ fn_out = <<>>
    /\ ServerIdle
    /\ BackendIdle

\* one call calculate_score(job, resume, weights) followed by score_to_ten and
\* build_matches on the same records, in a process whose hash seed differs
\* from that of the call before
ScoreCall(seed) ==
    /\ Len(fn_out) < 2
    /\ \A i \in DOMAIN fn_out : fn_out[i].hashseed # seed
    /\ LET r == calculate_score(fn_in.job, fn_in.resume, fn_in.weights, Runtime(seed))
       IN  fn_out' = Append(fn_out,
                [hashseed |-> seed, score |-> r.score, report |-> r.report,
                 score_10 |-> score_to_ten(r.score),
                 matches |-> build_matches(fn_in.job, fn_in.resume, r.report, Runtime(seed))])
    /\ UNCHANGED <<fp_up, poller, login, threads, fn_in, server_vars, backend_vars>>

NextScore == \E seed \in HashSeeds : ScoreCall(seed)

SpecScore == InitScore /\ [][NextScore]_vars

\* score_to_ten on its own: two raw scores are drawn and the function is
\* applied to the first, then to the second
RawScores == -2..100

InitTen ==
    /\ fp_up = FALSE
    /\ ThreadsIdle
    /\ fn_in \in [a : RawScores, b : RawScores]
    /\ fn_out = <<>>
    /\ ServerIdle
    /\ BackendIdle

ScoreToTenCall ==
    /\ Len(fn_out) < 2
    /\ LET score_100 == IF fn_out = <<>> THEN fn_in.a ELSE fn_in.b
       IN  fn_out' = Append(fn_out, [score_100 |-> score_100,
                                     score_10 |-> score_to_ten(score_100)])
    /\ UNCHANGED <<fp_up, poller, login, threads, fn_in, server_vars, backend_vars>>

NextTen == ScoreToTenCall

SpecTen == InitTen /\ [][NextTen]_vars

-----------------------------------------------------------------------------
(* Claims about the pure functions, checked under SpecScore *)

WeightsValid(w) ==
    /\ w.education_match >= 0 /\ w.experience_match >= 0
    /\ w.hard_skills_match >= 0 /\ w.soft_skills_match >= 0
    /\ w.education_match + w.experience_match
         + w.hard_skills_match + w.soft_skills_match = 100

\* C1: for every pair of fact records and every weight configuration of
\* non-negative values summing to 100, calculate_score returns an integer
\* score in 0..100, and any two calls on the same inputs (whatever the set
\* iteration order of the process they run in) return the same score and the
\* same report.
C1_ScoreRangeDeterministic ==
    WeightsValid(fn_in.weights) =>
        \A i \in DOMAIN fn_out :
            /\ fn_out[i].score \in 0..100
            /\ \A k \in DOMAIN fn_out :
                  /\ fn_out[k].score = fn_out[i].score
                  /\ fn_out[k].report = fn_out[i].report

\* C1 witness: two calls under different hash seeds on a record pair with two
\* matched hard skills and a partial experience match
C1_Witness ==
    /\ Len(fn_out) = 2
    /\ fn_out[1].hashseed # fn_out[2].hashseed
    /\ Len(fn_out[2].report.strengths) >= 2
    /\ fn_out[2].report.partial_match # <<>>
    /\ fn_out[2].score > 0 /\ fn_out[2].score < 100

\* the entries of a report list whose f-string is msg
EntriesOf(list, msg) == {i \in DOMAIN list : list[i].msg = msg}

ExperienceMsg == "Experience: {resume_exp:.1f} years (required {job_exp:.1f})"

\* C15: if the job record has no hard skills, the hard-skills category adds
\* exactly 0 to the score (the score is that of the same call on a resume
\* without hard skills) and no skill entry is added to strengths or to
\* missing_required, whatever the hard skills of the resume are.
C15_NoHardSkillsRequired ==
    fn_in.job.hard_skills = <<>> =>
        \A i \in DOMAIN fn_out :
            /\ fn_out[i].report.score_details.hard_skills = 0
            /\ EntriesOf(fn_out[i].report.strengths, "Skill: {s}") = {}
            /\ EntriesOf(fn_out[i].report.missing_required, "Skill: {s}") = {}
            /\ fn_out[i].score =
                  calculate_score(fn_in.job, [fn_in.resume EXCEPT !.hard_skills = <<>>],
                                  fn_in.weights, Runtime(fn_out[i].hashseed)).score

\* C15 witness: a job without hard skills scored against a resume that lists
\* four, with a positive score from the other categories
C15_Witness ==
    /\ fn_in.job.hard_skills = <<>>
    /\ Len(fn_in.resume.hard_skills) = 4
    /\ Len(fn_out) = 2
    /\ fn_out[2].score > 0

\* C16: whenever resume.experience_years >= job.experience_years > 0, the
\* experience category awards exactly weights.experience_match and adds one
\* entry to strengths; it adds no entry to partial_match and none to
\* missing_required.
C16_ExperienceMet ==
    (fn_in.job.experience_years > 0
        /\ fn_in.resume.experience_years >= fn_in.job.experience_years) =>
        \A i \in DOMAIN fn_out :
            /\ fn_out[i].report.score_details.experience
                  = 100 * fn_in.weights.experience_match
            /\ Cardinality(EntriesOf(fn_out[i].report.strengths, ExperienceMsg)) = 1
            /\ fn_out[i].report.partial_match = <<>>
            /\ EntriesOf(fn_out[i].report.missing_required,
                         "Experience {job_exp:.1f} years") = {}

\* C16 witness: the resume has more years than the job asks for, under a
\* weight configuration other than the default
C16_Witness ==
    /\ fn_in.job.experience_years = 1
    /\ fn_in.resume.experience_years = 2
    /\ fn_in.weights.experience_match = 35
    /\ Len(fn_out) = 2
    /\ fn_out[2].report.score_details.experience = 3500

\* C17: score_to_ten is monotonic non-decreasing, returns an integer in
\* 1..10, maps every raw score <= 0 to 1 and maps 100 to 10.
C17_ScoreToTenMonotonic ==
    \A i \in DOMAIN fn_out :
        /\ fn_out[i].score_10 \in 1..10
        /\ fn_out[i].score_100 <= 0 => fn_out[i].score_10 = 1
        /\ fn_out[i].score_100 = 100 => fn_out[i].score_10 = 10
        /\ \A k \in DOMAIN fn_out :
              fn_out[i].score_100 <= fn_out[k].score_100
                => fn_out[i].score_10 <= fn_out[k].score_10

\* C17 witness: score_to_ten applied to a negative raw score and to 100
C17_Witness ==
    /\ Len(fn_out) = 2
    /\ fn_out[1].score_100 < 0 /\ fn_out[2].score_100 = 100
    /\ fn_out[1].score_10 < fn_out[2].score_10

\* C18: for the worked example (job: Bachelor, 3 years, sql and python;
\* resume: no education, 3 years, python) under the default weights,
\* calculate_score gives education 0 with a missing_required entry,
\* experience 25, hard_skills 20, soft_skills 0 and the score 45.
C18_WorkedExample ==
    fn_in = WorkedExample =>
        \A i \in DOMAIN fn_out :
            /\ fn_out[i].report.score_details =
                  [education |-> 0, experience |-> 2500,
                   hard_skills |-> 2000, soft_skills |-> 0]
            /\ EntriesOf(fn_out[i].report.missing_required,
                         "Education not stated in resume") # {}
            /\ fn_out[i].score = 45

\* C18 witness: the worked example scored in two processes
C18_Witness ==
    /\ fn_in = WorkedExample
    /\ Len(fn_out) = 2
    /\ Len(fn_out[2].report.missing_required) = 2
    /\ Len(fn_out[2].report.strengths) = 2

\* C19: for every raw score s in 1..100, score_to_ten(s) is
\* max(1, min(10, floor(s/10 + 1/2))): a raw score whose tenth ends in .5 is
\* rounded half up, so that 45 maps to 5.
C19_RoundsHalfUp ==
    \A i \in DOMAIN fn_out :
        fn_out[i].score_100 \in 1..100 =>
            fn_out[i].score_10
              = Max(1, Min(10, (2 * fn_out[i].score_100 + 10) \div 20))

\* C20: when both education fields are empty, experience_years is 0 on both
\* sides and the job asks for no hard and no soft skills, the score is 0,
\* score_10 is 1, and missing_required, partial_match and strengths are empty.
C20_NothingRequired ==
    (/\ fn_in.job.education = <<>> /\ fn_in.resume.education = <<>>
     /\ fn_in.job.experience_years = 0 /\ fn_in.resume.experience_years = 0
     /\ fn_in.job.hard_skills = <<>> /\ fn_in.job.soft_skills = <<>>) =>
        \A i \in DOMAIN fn_out :
            /\ fn_out[i].score = 0
            /\ fn_out[i].score_10 = 1
            /\ fn_out[i].report.missing_required = <<>>
            /\ fn_out[i].report.partial_match = <<>>
            /\ fn_out[i].report.strengths = <<>>

\* C20 witness: nothing is required and the resume lists hard and soft skills
C20_Witness ==
    /\ fn_in.job.education = <<>> /\ fn_in.resume.education = <<>>
    /\ fn_in.job.experience_years = 0 /\ fn_in.resume.experience_years = 0
    /\ fn_in.job.hard_skills = <<>> /\ fn_in.job.soft_skills = <<>>
    /\ fn_in.resume.hard_skills # <<>> /\ fn_in.resume.soft_skills # <<>>
    /\ Len(fn_out) = 2

\* the status build_matches gave to the item of a category
StatusOf(out, item) ==
    LET k == CHOOSE k \in DOMAIN out.matches : out.matches[k].item = item
    IN  out.matches[k].status

\* C21: for every pair of fact records, whenever calculate_score logs a
\* missing-required entry for a hard skill, the Hard skills item of
\* build_matches has the status gap or partial, never match.
C21_MissingSkillNeverMatch ==
    \A i \in DOMAIN fn_out :
        EntriesOf(fn_out[i].report.missing_required, "Skill: {s}") # {}
          => StatusOf(fn_out[i], "Hard skills") \in {"gap", "partial"}

\* C21 witness: one hard skill of the job is matched and one is missing
C21_Witness ==
    /\ Len(fn_out) = 2
    /\ EntriesOf(fn_out[2].report.missing_required, "Skill: {s}") # {}
    /\ EntriesOf(fn_out[2].report.strengths, "Skill: {s}") # {}
    /\ StatusOf(fn_out[2], "Hard skills") = "partial"

\* the four categories: the item of build_matches, the key of score_details,
\* the weight, and whether the job states a requirement
Categories ==
    << [item |-> "Education", detail |-> "education",
        weight |-> fn_in.weights.education_match,
        required |-> fn_in.job.education # <<>>],
       [item |-> "Experience", detail |-> "experience",
        weight |-> fn_in.weights.experience_match,
        required |-> fn_in.job.experience_years > 0],
       [item |-> "Hard skills", detail |-> "hard_skills",
        weight |-> fn_in.weights.hard_skills_match,
        required |-> fn_in.job.hard_skills # <<>>],
       [item |-> "Soft skills", detail |-> "soft_skills",
        weight |-> fn_in.weights.soft_skills_match,
        required |-> fn_in.job.soft_skills # <<>>] >>

\* the status the contribution of a category (in hundredths) stands for
StatusOfContribution(c, contribution) ==
    IF ~c.required THEN "partial"
    ELSE IF contribution = 100 * c.weight THEN "match"
    ELSE IF contribution > 0 THEN "partial"
    ELSE "gap"

\* the status of category c agrees with its contribution in call i
Agrees(c, i) ==
    StatusOf(fn_out[i], c.item)
      = StatusOfContribution(c, fn_out[i].report.score_details[c.detail])

NotSpecified(k) ==
    IF k <= 2 THEN <<"not specified">> ELSE <<<<"not specified">>>>

\* C23: build_matches returns exactly four items in the order Education,
\* Experience, Hard skills, Soft skills, each with a status in {match,
\* partial, gap}; a category for which the job states nothing has the status
\* partial and the comment 'not specified'.
C23_FourFixedItems ==
    \A i \in DOMAIN fn_out :
        LET matches == fn_out[i].matches
        IN  /\ [k \in DOMAIN matches |-> matches[k].item]
                  = <<"Education", "Experience", "Hard skills", "Soft skills">>
            /\ \A k \in DOMAIN matches : matches[k].status \in {"match", "partial", "gap"}
            /\ \A k \in DOMAIN Categories :
                  ~Categories[k].required =>
                      /\ matches[k].status = "partial"
                      /\ matches[k].comment = NotSpecified(k)

\* C23 witness: the job states nothing for education and soft skills and
\* something for experience and hard skills
C23_Witness ==
    /\ Len(fn_out) = 2
    /\ ~Categories[1].required /\ Categories[2].required
    /\ Categories[3].required /\ ~Categories[4].required
    /\ fn_in.resume.soft_skills # <<>>
    /\ StatusOf(fn_out[2], "Hard skills") = "match"

\* the education category of call i is as the claim states it
EducationAsStated(i) ==
    LET both == fn_in.job.education # <<>> /\ fn_in.resume.education # <<>>
        report == fn_out[i].report
    IN  /\ report.score_details.education
              = IF both THEN 100 * fn_in.weights.education_match ELSE 0
        /\ EntriesOf(report.missing_required, "Education not stated in resume") # {}
              <=> (fn_in.job.education # <<>> /\ fn_in.resume.education = <<>>)
        /\ EntriesOf(report.strengths, "Education matches") # {} <=> both

RoundDiv(num, den) == (2 * num + den) \div (2 * den)

ExperienceMissingMsg == "Experience {job_exp:.1f} years"

\* the entries the experience category logged in call i
ExperienceLogged(i) ==
    [strengths |-> Cardinality(EntriesOf(fn_out[i].report.strengths, ExperienceMsg)),
     partial_match |-> Len(fn_out[i].report.partial_match),
     missing_required |->
        Cardinality(EntriesOf(fn_out[i].report.missing_required, ExperienceMissingMsg))]

\* the experience category of call i as the claim states it; strict says
\* whether a partial contribution is asked to be strictly between 0 and the
\* weight
ExperienceAsStated(i, strict) ==
    LET job == fn_in.job.experience_years
        resume == fn_in.resume.experience_years
        weight == fn_in.weights.experience_match
        got == fn_out[i].report.score_details.experience
    IN  /\ job <= 0 =>
              /\ got = 0
              /\ ExperienceLogged(i) =
                    [strengths |-> 0, partial_match |-> 0, missing_required |-> 0]
        /\ (0 < resume /\ resume < job) =>
              /\ got = RoundDiv(100 * resume * weight, job)
              /\ strict => (0 < got /\ got < 100 * weight)
              /\ ExperienceLogged(i) =
                    [strengths |-> 0, partial_match |-> 1, missing_required |-> 0]
        /\ (job > 0 /\ resume = 0) =>
              /\ got = 0
              /\ ExperienceLogged(i) =
                    [strengths |-> 0, partial_match |-> 0, missing_required |-> 1]

SkillsLogged(list, msg) ==
    LET kept == SelectSeq(list, LAMBDA e : e.msg = msg)
    IN  [k \in DOMAIN kept |-> kept[k].s]

\* C28: when the job has at least one hard skill, the hard-skills
\* contribution is |job_skills /\ resume_skills| * weight / |job_skills|; the
\* skills of the intersection are logged once each as strengths and those of
\* job_skills minus resume_skills once each as missing-required, each group
\* in alphabetical order, the two groups partitioning job_skills.
C28_HardSkillsCategory ==
    fn_in.job.hard_skills # <<>> =>
        \A i \in DOMAIN fn_out :
            LET job_skills == {Normalize(fn_in.job.hard_skills[k]) :
                                  k \in DOMAIN fn_in.job.hard_skills}
                resume_skills == {Normalize(fn_in.resume.hard_skills[k]) :
                                     k \in DOMAIN fn_in.resume.hard_skills}
                strong == SkillsLogged(fn_out[i].report.strengths, "Skill: {s}")
                missing == SkillsLogged(fn_out[i].report.missing_required, "Skill: {s}")
            IN  /\ fn_out[i].report.score_details.hard_skills
                      = RoundDiv(100 * Cardinality(job_skills \cap resume_skills)
                                     * fn_in.weights.hard_skills_match,
                                 Cardinality(job_skills))
                /\ strong = Ascending(job_skills \cap resume_skills)
                /\ missing = Ascending(job_skills \ resume_skills)
                /\ Range(strong) \cup Range(missing) = job_skills
                /\ Range(strong) \cap Range(missing) = {}

\* C28 witness: a job list that repeats a skill in another spelling, one
\* skill matched and one missing
C28_Witness ==
    /\ fn_in.job.hard_skills = <<Py_, sql, Py_>>
    /\ fn_in.resume.hard_skills = <<py>>
    /\ Len(fn_out) = 2
    /\ SkillsLogged(fn_out[2].report.strengths, "Skill: {s}") = <<py>>
    /\ SkillsLogged(fn_out[2].report.missing_required, "Skill: {s}") = <<sql>>

\* C29: the soft-skills contribution is |matched| * weight / |job_soft|, 0
\* when the job has none; each matched soft skill is logged as a strength;
\* missing_required and partial_match are those of the same call without
\* soft skills, so the category adds no entry to either.
C29_SoftSkillsCategory ==
    \A i \in DOMAIN fn_out :
        LET job_soft == {Normalize(fn_in.job.soft_skills[k]) :
                            k \in DOMAIN fn_in.job.soft_skills}
            resume_soft == {Normalize(fn_in.resume.soft_skills[k]) :
                               k \in DOMAIN fn_in.resume.soft_skills}
            without == calculate_score([fn_in.job EXCEPT !.soft_skills = <<>>],
                                       [fn_in.resume EXCEPT !.soft_skills = <<>>],
                                       fn_in.weights, Runtime(fn_out[i].hashseed))
        IN  /\ fn_out[i].report.score_details.soft_skills
                  = IF job_soft = {} THEN 0
                    ELSE RoundDiv(100 * Cardinality(job_soft \cap resume_soft)
                                      * fn_in.weights.soft_skills_match,
                                  Cardinality(job_soft))
            /\ SkillsLogged(fn_out[i].report.strengths, "Soft skill: {s}")
                  = Ascending(job_soft \cap resume_soft)
            /\ fn_out[i].report.missing_required = without.report.missing_required
            /\ fn_out[i].report.partial_match = without.report.partial_match

\* C29 witness: the job asks for three soft skills and the resume has one of
\* them, in another spelling
C29_Witness ==
    /\ Len(fn_in.job.soft_skills) = 3
    /\ fn_in.resume.soft_skills = <<_Tm>>
    /\ Len(fn_out) = 2
    /\ SkillsLogged(fn_out[2].report.strengths, "Soft skill: {s}") = <<tm>>
    /\ fn_out[2].report.score_details.soft_skills > 0

\* str.upper() on the letters of the model
UpperCharOf ==
    [c \in Chars |->
        IF \E i \in DOMAIN LowerChars : LowerChars[i] = c
        THEN UpperChars[CHOOSE i \in DOMAIN LowerChars : LowerChars[i] = c]
        ELSE c]
upper(s) == [i \in DOMAIN s |-> UpperCharOf[s[i]]]

\* three respellings of a skill list: every letter in the other case, blanks
\* put before and after every string, every string listed twice
Recased(xs) == [i \in DOMAIN xs |-> IF xs[i] = lower(xs[i]) THEN upper(xs[i])
                                                          ELSE lower(xs[i])]
Padded(xs) == [i \in DOMAIN xs |-> <<" ">> \o xs[i] \o <<" ", " ">>]
Repeated(xs) == xs \o xs
SkillVariants(xs) == <<Recased(xs), Padded(xs), Repeated(xs)>>

\* the record rec with its hard and its soft skills in respelling k
Respelled(rec, k) ==
    [rec EXCEPT !.hard_skills = SkillVariants(@)[k],
                !.soft_skills = SkillVariants(@)[k]]

\* what ScoreCall records of a call on the records job and resume
Outputs(job, resume, seed) ==
    LET r == calculate_score(job, resume, fn_in.weights, Runtime(seed))
    IN  [score |-> r.score, report |-> r.report,
         matches |-> build_matches(job, resume, r.report, Runtime(seed))]

FullMatch ==
    /\ fn_in.job.education # <<>> /\ fn_in.resume.education # <<>>
    /\ fn_in.job.experience_years > 0
    /\ fn_in.resume.experience_years >= fn_in.job.experience_years
    /\ fn_in.job.hard_skills # <<>> /\ fn_in.job.soft_skills # <<>>
    /\ NormSet(fn_in.job.hard_skills) \subseteq NormSet(fn_in.resume.hard_skills)
    /\ NormSet(fn_in.job.soft_skills) \subseteq NormSet(fn_in.resume.soft_skills)

\* score_details (hundredths) shows the full weight in every category
EveryCategoryFull(details) ==
    /\ details.education = 100 * fn_in.weights.education_match
    /\ details.experience = 100 * fn_in.weights.experience_match
    /\ details.hard_skills = 100 * fn_in.weights.hard_skills_match
    /\ details.soft_skills = 100 * fn_in.weights.soft_skills_match

\* C36: a resume that meets all four stated requirements scores exactly 100
\* with nothing logged as missing or partial, and a score of 100 is returned
\* only when every category earns its full weight.
C36_HundredIffFullMatch ==
    \A i \in DOMAIN fn_out :
        /\ FullMatch =>
              /\ fn_out[i].score = 100
              /\ fn_out[i].report.missing_required = <<>>
              /\ fn_out[i].report.partial_match = <<>>
        /\ fn_out[i].score = 100 => EveryCategoryFull(fn_out[i].report.score_details)

-----------------------------------------------------------------------------
(* JSON values, as json.loads and request.json produce them.  A dict is the
   sequence of its <<key, value>> pairs; a str is a tuple of characters. *)

JAbsent == [t |-> "absent", v |-> <<>>]     \* what d.get(key) finds for no key
JNull == [t |-> "null", v |-> <<>>]
JStr(s) == [t |-> "str", v |-> s]
JNum(n) == [t |-> "num", v |-> n]
JList(xs) == [t |-> "list", v |-> xs]
JDict(kv) == [t |-> "dict", v |-> kv]

\* bool(x)
Truthy(j) ==
    CASE j.t \in {"absent", "null"} -> FALSE
      [] j.t = "num" -> j.v # 0
      [] OTHER -> Len(j.v) > 0

HasKey(d, key) == \E i \in DOMAIN d.v : d.v[i][1] = key

\* d.get(key)
DictGet(d, key) ==
    IF HasKey(d, key)
    THEN d.v[CHOOSE i \in DOMAIN d.v : d.v[i][1] = key][2]
    ELSE JAbsent

\* a faulty variant of DictGetDefault: d.get(key), the default is not passed
DictGetDefault_none(d, key, default) == DictGet(d, key)

\* d.get(key, default)
DictGetDefault(d, key, default) ==
    IF HasKey(d, key) THEN DictGet(d, key) ELSE default

\* d.setdefault(key, default)
setdefault(d, key, default) ==
    IF HasKey(d, key) THEN d ELSE JDict(Append(d.v, <<key, default>>))

\* d[key] = value
DictSet(d, key, value) ==
    IF HasKey(d, key)
    THEN JDict([i \in DOMAIN d.v |->
                  IF d.v[i][1] = key THEN <<key, value>> ELSE d.v[i]])
    ELSE JDict(Append(d.v, <<key, value>>))

-----------------------------------------------------------------------------
(* The text of an LLM reply: a sequence of segments.  A segment is prose
   without braces, the text of one JSON object, or braces around something
   that is not JSON. *)

Prose == [k |-> "prose", obj |-> JNull]
Object(d) == [k |-> "object", obj |-> d]
Broken == [k |-> "broken", obj |-> JNull]

Returned(x) == [raised |-> "", value |-> x]
Raised(exc) == [raised |-> exc, value |-> JNull]

\* extract_json_from_text (src/server/app.py:165): the greedy pattern
\* \{[\s\S]*\} spans from the first brace segment to the last one, and
\* json.loads accepts the span only when it is a single JSON object
extract_json_from_text(text) ==
    LET braces == {i \in DOMAIN text : text[i].k # "prose"}
    IN  IF braces = {} THEN Raised("ValueError")
        ELSE LET first == CHOOSE i \in braces : \A k \in braces : i <= k
                 last == CHOOSE i \in braces : \A k \in braces : i >= k
             IN  IF first = last /\ text[first].k = "object"
                 THEN Returned(text[first].obj)
                 ELSE Raised("JSONDecodeError")

\* the defaults of extract_structured_data (src/server/app.py:201)
DefaultFacts ==
    JDict(<< <<"education", JStr(<<>>)>>, <<"experience_years", JNum(0)>>,
             <<"hard_skills", JList(<<>>)>>, <<"soft_skills", JList(<<>>)>> >>)

\* extract_structured_data (src/server/app.py:172), from the reply of
\* call_gigachat on: the parse, the defaults, the four setdefault calls
extract_structured_data(response) ==
    LET parsed == extract_json_from_text(response)
    IN  IF parsed.raised # "" THEN DefaultFacts
        ELSE setdefault(setdefault(setdefault(setdefault(parsed.value,
                 "education", JStr(<<>>)),
                 "experience_years", JNum(0)),
                 "hard_skills", JList(<<>>)),
                 "soft_skills", JList(<<>>))

\* generate_explanation (src/server/app.py:407), from the reply on
explanation_of(response) ==
    LET parsed == extract_json_from_text(response)
    IN  IF parsed.raised # "" THEN JDict(<<>>) ELSE parsed.value

-----------------------------------------------------------------------------
(* calculate_score and build_matches on the dicts extract_structured_data
   returns, whatever the types of their values *)

\* float(d.get('experience_years') or 0): the exception it raises, "" for none.
\* No str of the replies modelled is the text of a number.
FloatError(x) ==
    IF ~Truthy(x) \/ x.t = "num" THEN ""
    ELSE IF x.t = "str" THEN "ValueError" ELSE "TypeError"

\* set(s.lower().strip() for s in d.get(key, [])): the exception it raises.
\* A str iterates its characters; no reply modelled puts a dict here.
SkillsError(x) ==
    CASE x.t = "absent" -> ""
      [] x.t \in {"null", "num"} -> "TypeError"
      [] x.t = "str" -> ""
      [] x.t = "list" ->
            IF \A i \in DOMAIN x.v : x.v[i].t = "str" THEN "" ELSE "AttributeError"

FirstError(errs) ==
    IF \A i \in DOMAIN errs : errs[i] = "" THEN ""
    ELSE errs[CHOOSE i \in DOMAIN errs :
                 errs[i] # "" /\ \A k \in 1..(i - 1) : errs[k] = ""]

\* the exception calculate_score(job_data, resume_data, _) raises, in the
\* order the code reads the values (src/server/app.py:235-269)
ScoreError(job_data, resume_data) ==
    FirstError(<< FloatError(DictGet(job_data, "experience_years")),
                  FloatError(DictGet(resume_data, "experience_years")),
                  SkillsError(DictGet(job_data, "hard_skills")),
                  SkillsError(DictGet(resume_data, "hard_skills")),
                  SkillsError(DictGet(job_data, "soft_skills")),
                  SkillsError(DictGet(resume_data, "soft_skills")) >>)

\* the strings the comprehension iterates
SkillStrings(x) ==
    CASE x.t = "absent" -> <<>>
      [] x.t = "str" -> [i \in DOMAIN x.v |-> <<x.v[i]>>]
      [] x.t = "list" -> [i \in DOMAIN x.v |-> x.v[i].v]

\* the values calculate_score and build_matches read from a dict they can
\* score; a truthy education that is not a str is kept as a marker
AsFacts(d) ==
    LET edu == DictGet(d, "education")
        exp == DictGet(d, "experience_years")
    IN  [education |-> IF ~Truthy(edu) THEN <<>>
                       ELSE IF edu.t = "str" THEN edu.v ELSE <<"non-str">>,
         experience_years |-> IF Truthy(exp) THEN exp.v ELSE 0,
         hard_skills |-> SkillStrings(DictGet(d, "hard_skills")),
         soft_skills |-> SkillStrings(DictGet(d, "soft_skills"))]

-----------------------------------------------------------------------------
(* is_authorized (src/server/app.py:55) *)

Bearer_ == <<"B", "e", "a", "r", "e", "r", " ">>

\* s.startswith(prefix)
startswith(s, prefix) ==
    Len(s) >= Len(prefix) /\ SubSeq(s, 1, Len(prefix)) = prefix

\* s.split(' ', 1)[1], for s holding a space
split_1(s) ==
    LET i == CHOOSE i \in DOMAIN s : s[i] = " " /\ \A k \in 1..(i - 1) : s[k] # " "
    IN  SubSeq(s, i + 1, Len(s))

is_authorized(headers) ==
    IF MATCHER_API_KEY = <<>> THEN FALSE
    ELSE IF startswith(headers.Authorization, Bearer_)
         THEN strip(split_1(headers.Authorization)) = MATCHER_API_KEY
         ELSE strip(headers.X_API_Key) = MATCHER_API_KEY

-----------------------------------------------------------------------------
(* Inputs of the matcher API: requests, OAuth outcomes, completion outcomes *)

\* the minimum text length of the analyze operation (src/backend/app.py:838)
MIN_TEXT_LEN == 100

\* token_cache is reused until this many seconds before expiry
\* (src/server/app.py:93)
TOKEN_MARGIN == 60

\* the OAuth endpoint declares expires_at in milliseconds since the epoch:
\* _get_gigachat_token divides it by this (src/backend/app.py:460)
MS_PER_SECOND == 1000

Filler(n) == [i \in 1..n |-> "x"]
LongText == Filler(MIN_TEXT_LEN)
PaddedText == <<" ">> \o Filler(MIN_TEXT_LEN + 1) \o <<" ">>
ShortText == Filler(MIN_TEXT_LEN - 1)
Blank == <<" ", " ">>

Key == <<"k">>
GoodBearer == [Authorization |-> Bearer_ \o Key \o <<" ">>, X_API_Key |-> <<>>]
GoodApiKey == [Authorization |-> <<"B", "a", "s", "i", "c", " ", "k">>,
               X_API_Key |-> <<" ">> \o Key]
WrongBearer == [Authorization |-> Bearer_ \o <<"w">>, X_API_Key |-> Key]
NoCredentials == [Authorization |-> <<>>, X_API_Key |-> <<>>]

Body(vacancy_text, profile) ==
    JDict(<< <<"vacancy_text", vacancy_text>>, <<"profile", profile>> >>)
Profile(resume_text) == JDict(<< <<"resume_text", JStr(resume_text)>> >>)

Request(headers, data) == [readable |-> TRUE, headers |-> headers, data |-> data]
\* a body request.json cannot read (not JSON, or not declared as JSON)
Unreadable(headers) == [readable |-> FALSE, headers |-> headers, data |-> JNull]

Requests ==
    << Request(GoodBearer, Body(JStr(PaddedText), Profile(LongText))),
       Request(GoodApiKey, Body(JStr(ShortText), Profile(<<"c", "v">>))),
       Request(WrongBearer, Body(JStr(LongText), Profile(LongText))),
       Unreadable(NoCredentials),
       Request(NoCredentials, Body(JStr(LongText), Profile(LongText))),
       Unreadable(GoodBearer),
       Request(GoodBearer, JNull),
       Request(GoodBearer, JDict(<< <<"profile", Profile(LongText)>> >>)),
       Request(GoodBearer, Body(JStr(LongText), JDict(<<>>))),
       Request(GoodBearer, Body(JStr(Blank), JDict(<< <<"salary_min", JNum(1)>> >>))),
       Request(GoodBearer, Body(JStr(LongText), JStr(<<"c", "v">>))),
       Request(GoodBearer, Body(JNum(5), Profile(LongText))),
       Request(GoodBearer, Body(JStr(LongText),
                                JDict(<< <<"resume_text", JStr(LongText)>>,
                                         <<"work_format", JNum(1)>> >>))) >>

\* model names, and the candidate models of the fallback
GigaChat == <<"G", "i", "g", "a", "C", "h", "a", "t">>
GigaChat_Max == GigaChat \o <<"-", "M", "a", "x">>
GigaChat_Pro == GigaChat \o <<"-", "P", "r", "o">>

\* the default of the environment variable GIGACHAT_MODELS
\* (src/backend/app.py:29)
GIGACHAT_MODELS == GigaChat_Max \o <<",">> \o GigaChat_Pro \o <<",">> \o GigaChat

\* s.split(sep)
RECURSIVE split(_, _)
split(s, sep) ==
    IF \A i \in DOMAIN s : s[i] # sep THEN <<s>>
    ELSE LET i == CHOOSE i \in DOMAIN s : s[i] = sep /\ \A k \in 1..(i - 1) : s[k] # sep
         IN  <<SubSeq(s, 1, i - 1)>> \o split(SubSeq(s, i + 1, Len(s)), sep)

\* [m.strip() for m in GIGACHAT_MODELS.split(",") if m.strip()]
\* (src/backend/app.py:510)
models_of(env) ==
    LET items == split(env, ",")
        stripped == [i \in DOMAIN items |-> strip(items[i])]
    IN  SelectSeq(stripped, LAMBDA m : m # <<>>)

\* the objects an LLM reply may hold
FactsJob ==
    JDict(<< <<"education", JStr(BSc)>>, <<"experience_years", JNum(2)>>,
             <<"hard_skills", JList(<<JStr(Py_), JStr(sql)>>)>>,
             <<"soft_skills", JList(<<JStr(tm), JStr(ok)>>)>> >>)
FactsResume ==
    JDict(<< <<"education", JStr(BSc)>>, <<"experience_years", JNum(1)>>,
             <<"hard_skills", JList(<<JStr(py), JStr(go)>>)>>,
             <<"soft_skills", JList(<<JStr(_Tm)>>)>> >>)
FactsPartial == JDict(<< <<"hard_skills", JList(<<JStr(py)>>)>> >>)
FactsIllTyped ==
    JDict(<< <<"education", JNull>>, <<"experience_years", JNum(-2)>>,
             <<"hard_skills", JStr(py)>>, <<"soft_skills", JList(<<JNum(1)>>)>> >>)
FactsOdd ==
    JDict(<< <<"education", JNum(5)>>, <<"experience_years", JNum(-2)>>,
             <<"hard_skills", JStr(py)>> >>)
Narrative ==
    JDict(<< <<"verdict", JStr(ok)>>,
             <<"company", JDict(<< <<"name", JStr(go)>> >>)>>,
             <<"details", JDict(<< <<"stack", JStr(sql)>> >>)>>,
             <<"pros_cons", JDict(<< <<"pros", JList(<<JStr(tm)>>)>> >>)>>,
             <<"recommendation", JDict(<< <<"decision", JStr(go)>> >>)>> >>)
NarrativeWithScore ==
    JDict(<< <<"score", JNum(10)>>, <<"score_raw", JNum(100)>>,
             <<"matches", JList(<<>>)>>, <<"verdict", JNull>>,
             <<"company", JDict(<<>>)>> >>)

\* the reply texts an LLM call may return
ReplyTexts ==
    << <<Object(FactsJob)>>,
       <<Prose, Object(FactsResume), Prose>>,
       <<Prose>>,
       <<>>,
       <<Object(FactsJob), Prose, Object(FactsResume)>>,
       <<Broken>>,
       <<Object(FactsPartial)>>,
       <<Object(FactsIllTyped)>>,
       <<Object(FactsOdd)>>,
       <<Object(Narrative)>>,
       <<Object(NarrativeWithScore)>> >>

\* outcomes of the OAuth request of get_gigachat_token (src/server/app.py:102);
\* an answer declares the token expired lifetime seconds after the request
OAuthOutcomes ==
    {[kind |-> "ok", lifetime |-> 30], [kind |-> "ok", lifetime |-> 120],
     [kind |-> "http", lifetime |-> 0], [kind |-> "transport", lifetime |-> 0]}

\* outcomes of the completion request of call_gigachat (src/server/app.py:135)
ChatFailures == {"http", "transport", "bad_shape", "null_content"}
ChatOutcomes ==
    {[kind |-> k, reply |-> 0] : k \in ChatFailures}
        \cup {[kind |-> "content", reply |-> i] : i \in DOMAIN ReplyTexts}

-----------------------------------------------------------------------------
(* analyze_vacancy (src/server/app.py:418) *)

MaxNow == 60        \* time.time() runs over 0..MaxNow
TickStep == 30      \* seconds between two readings of the clock

NoResponse == [status |-> 0, error |-> "", result |-> JDict(<<>>)]
NoScore == [score |-> 0, report |-> <<>>]
\* the two numbers of the line 'ОЦЕНКА: {score_100}/100 (это около
\* {score_10}/10)' of the narrative prompt (src/server/app.py:367)
NoPrompt == [score_100 |-> 0, score_10 |-> 0]

\* the last call of get_gigachat_token of a request: where the token came
\* from, the clock, and token_cache as the call found it
TokenUse(source) ==
    [source |-> source, at |-> now, cached |-> token_cache.access_token # None,
     expires_at |-> token_cache.expires_at]
NoTokenUse == [source |-> "none", at |-> 0, cached |-> FALSE, expires_at |-> 0]

IdleReq ==
    [pc |-> "idle", step |-> "", input |-> 0, hashseed |-> 0,
     job_reply |-> 0, resume_reply |-> 0, narrative_reply |-> 0,
     job_data |-> JNull, resume_data |-> JNull,
     scored |-> FALSE, score_result |-> NoScore, score_10 |-> 0,
     prompt |-> NoPrompt,
     calls |-> <<>>, token_use |-> NoTokenUse, response |-> NoResponse]

NoPrev ==
    [status |-> 0, input |-> 0, job_reply |-> 0, resume_reply |-> 0,
     narrative_reply |-> 0, result |-> JDict(<<>>)]

\* return jsonify(...), status
Respond(r, status, error, result) ==
    [r EXCEPT !.pc = "done",
              !.response = [status |-> status, error |-> error, result |-> result]]

\* except Exception as e: ... return jsonify({'error': str(e)}), 500
\* (src/server/app.py:515)
Fail(r, exc) == Respond(r, 500, exc, JDict(<<>>))

\* (x or '').strip() raises AttributeError for a truthy x that is not a str
StripError(x) == Truthy(x) /\ x.t # "str"
Stripped(x) == IF Truthy(x) THEN strip(x.v) ELSE <<>>

\* ', '.join(profile.get(key, [])) of generate_explanation
\* (src/server/app.py:380): TypeError unless an iterable of str
JoinError(x) ==
    CASE x.t \in {"absent", "str", "dict"} -> FALSE
      [] x.t = "list" -> \E i \in DOMAIN x.v : x.v[i].t # "str"
      [] OTHER -> TRUE

PromptError(profile) ==
    \/ JoinError(DictGet(profile, "work_format"))
    \/ JoinError(DictGet(profile, "red_flags"))
    \/ JoinError(DictGet(profile, "must_have"))

\* a faulty variant of result_of: the reply of the narrative step is merged
\* into the result, {**result, **explanation}
RECURSIVE merge(_, _)
merge(d, kv) ==
    IF kv = <<>> THEN d ELSE merge(DictSet(d, kv[1][1], kv[1][2]), Tail(kv))
result_merged(explanation, score_10, score_100, matches) ==
    merge(JDict(<< <<"score", JNum(score_10)>>, <<"score_raw", JNum(score_100)>>,
                   <<"verdict", JStr(<<"D", "o", "n", "e">>)>>,
                   <<"matches", JList(matches)>> >>),
          explanation.v)

\* a faulty variant of result_of: 'score_raw' carries the 1-10 value and
\* 'score' the 0-100 value
result_swapped(explanation, score_10, score_100, matches) ==
    DictSet(DictSet(result_merged(JDict(<<>>), score_10, score_100, matches),
                    "score", JNum(score_100)),
            "score_raw", JNum(score_10))

\* the result dict of analyze_vacancy (src/server/app.py:469-483)
result_of(explanation, score_10, score_100, matches) ==
    LET base == JDict(<< <<"score", JNum(score_10)>>,
                         <<"score_raw", JNum(score_100)>>,
                         <<"verdict", DictGetDefault(explanation, "verdict",
                                          JStr(<<"D", "o", "n", "e">>))>>,
                         <<"matches", JList(matches)>> >>)
        with(d, key) == IF Truthy(DictGet(explanation, key))
                        THEN DictSet(d, key, DictGet(explanation, key))
                        ELSE d
    IN  with(with(with(with(base, "company"), "details"), "pros_cons"),
             "recommendation")

\* vacancy_text and resume_text of request i (src/server/app.py:441-442)
vacancy_text(i) == Stripped(DictGet(Requests[i].data, "vacancy_text"))
resume_text(i) ==
    Stripped(DictGet(DictGet(Requests[i].data, "profile"), "resume_text"))

\* lines 421-445: read the body, authenticate, validate, strip the texts;
\* the texts stay those of request i, req.input
analyze_vacancy(i, seed) ==
    /\ req.pc = "idle"
    /\ LET r == Requests[i]
           data == r.data
           profile == DictGet(data, "profile")
           got == [req EXCEPT !.input = i, !.hashseed = seed]
       IN  req' =
             IF ~r.readable THEN Fail(got, "BadRequest")
             ELSE IF ~is_authorized(r.headers)
                  THEN Respond(got, 401, "Unauthorized", JDict(<<>>))
             ELSE IF data.t # "dict" THEN Fail(got, "AttributeError")
             ELSE IF ~Truthy(DictGet(data, "vacancy_text"))
                  THEN Respond(got, 400, "vacancy_text required", JDict(<<>>))
             ELSE IF ~Truthy(profile)
                  THEN Respond(got, 400, "profile required", JDict(<<>>))
             ELSE IF \/ StripError(DictGet(data, "vacancy_text"))
                     \/ profile.t # "dict"
                     \/ StripError(DictGet(profile, "resume_text"))
                  THEN Fail(got, "AttributeError")
             ELSE [got EXCEPT !.step = "vacancy", !.pc = "token"]
    /\ UNCHANGED <<fp_up, poller, login, threads, score_vars, MATCHER_API_KEY, now, token_cache, prev,
                   backend_vars>>

Call(to, model, outcome) ==
    [to |-> to, step |-> req.step, model |-> model, outcome |-> outcome]

\* get_gigachat_token (src/server/app.py:90), called first by call_gigachat
get_gigachat_token(outcome) ==
    /\ req.pc = "token"
    /\ IF token_cache.access_token # None
          /\ now < token_cache.expires_at - TOKEN_MARGIN
       THEN /\ req' = [req EXCEPT !.pc = "chat", !.token_use = TokenUse("cache")]
            /\ UNCHANGED token_cache
       ELSE LET called == [req EXCEPT !.calls = Append(@, Call("oauth", <<>>, outcome.kind)),
                                      !.token_use = TokenUse("oauth")]
            IN  IF outcome.kind = "ok"
                THEN /\ token_cache' =
                          [access_token |-> "token",
                           expires_at |-> MS_PER_SECOND * (now + outcome.lifetime)]
                     /\ req' = [called EXCEPT !.pc = "chat"]
                ELSE /\ req' = Fail(called, IF outcome.kind = "http"
                                            THEN "GigaChat OAuth error"
                                            ELSE "ConnectionError")
                     /\ UNCHANGED token_cache
    /\ UNCHANGED <<fp_up, poller, login, threads, score_vars, MATCHER_API_KEY, now, prev, backend_vars>>

\* str(e) of the exception call_gigachat raises (src/server/app.py:135-160)
ChatError(kind) ==
    CASE kind = "http" -> "GigaChat API error"
      [] kind = "transport" -> "ConnectionError"
      [] kind = "bad_shape" -> "KeyError"
      [] kind = "null_content" -> "TypeError"

\* what analyze_vacancy does with the reply text of a step, up to the next
\* call_gigachat or the response (src/server/app.py:197-212, 449-513)
after_reply(r, i) ==
    LET text == ReplyTexts[i]
    IN  CASE r.step = "vacancy" ->
               [r EXCEPT !.job_reply = i,
                         !.job_data = extract_structured_data(text),
                         !.step = "resume", !.pc = "token"]
          [] r.step = "resume" ->
               LET resume_data == extract_structured_data(text)
                   got == [r EXCEPT !.resume_reply = i, !.resume_data = resume_data]
                   err == ScoreError(r.job_data, resume_data)
                   score_result == calculate_score(AsFacts(r.job_data),
                                       AsFacts(resume_data), DEFAULT_WEIGHTS,
                                       Runtime(r.hashseed))
                   scored == [got EXCEPT !.scored = TRUE,
                                         !.score_result = score_result,
                                         !.score_10 = score_to_ten(score_result.score)]
               IN  IF err # "" THEN Fail(got, err)
                   ELSE IF PromptError(DictGet(Requests[r.input].data, "profile"))
                        THEN Fail(scored, "TypeError")
                        ELSE [scored EXCEPT !.step = "explain", !.pc = "token",
                                            !.prompt =
                                               [score_100 |-> score_result.score,
                                                score_10 |-> scored.score_10]]
          [] r.step = "explain" ->
               LET explanation == explanation_of(text)
                   matches == build_matches(AsFacts(r.job_data), AsFacts(r.resume_data),
                                  r.score_result.report, Runtime(r.hashseed))
               IN  Respond([r EXCEPT !.narrative_reply = i], 200, "",
                           result_of(explanation, r.score_10,
                                     r.score_result.score, matches))

\* call_gigachat after the token (src/server/app.py:135-163): one completion
\* request to the model 'GigaChat', and the code that runs on its outcome
call_gigachat(outcome) ==
    /\ req.pc = "chat"
    /\ LET called == [req EXCEPT !.calls = Append(@, Call("chat", GigaChat, outcome.kind))]
       IN  req' = IF outcome.kind = "content"
                  THEN after_reply(called, outcome.reply)
                  ELSE Fail(called, ChatError(outcome.kind))
    /\ UNCHANGED <<fp_up, poller, login, threads, score_vars, MATCHER_API_KEY, now, token_cache, prev,
                   backend_vars>>

\* the response is sent; the worker takes the next request
deliver ==
    /\ req.pc = "done"
    /\ req' = IdleReq
    /\ UNCHANGED <<fp_up, poller, login, threads, score_vars, MATCHER_API_KEY, now, token_cache, prev,
                   backend_vars>>

\* time passes between two calls of get_gigachat_token
Tick ==
    /\ req.pc \in {"idle", "token"}
    /\ now + TickStep <= MaxNow
    /\ now' = now + TickStep
    /\ UNCHANGED <<fp_up, poller, login, threads, score_vars, MATCHER_API_KEY, token_cache, req, prev,
                   backend_vars>>

ScoreIdle == fn_in = None /\ fn_out = <<>>

Init ==
    /\ fp_up \in BOOLEAN
    /\ ThreadsIdle
    /\ ScoreIdle
    /\ MATCHER_API_KEY \in {<<>>, Key}
    /\ now = 0
    /\ token_cache = [access_token |-> None, expires_at |-> 0]
    /\ req = IdleReq
    /\ prev = NoPrev
    /\ BackendIdle

Next ==
    \/ \E i \in DOMAIN Requests, seed \in HashSeeds : analyze_vacancy(i, seed)
    \/ \E outcome \in OAuthOutcomes : get_gigachat_token(outcome)
    \/ \E outcome \in ChatOutcomes : call_gigachat(outcome)
    \/ deliver
    \/ Tick

Spec == Init /\ [][Next]_vars

\* two requests in a row on the same body, the first kept for comparison
PairRequests == {1}
PairOAuthOutcomes == {[kind |-> "ok", lifetime |-> 120]}
PairOutcomes == {[kind |-> "content", reply |-> i] : i \in {1, 2, 3, 9, 10, 11}}

\* the response of the first request is kept, the worker takes the second
rerun ==
    /\ req.pc = "done"
    /\ prev = NoPrev
    /\ prev' = [status |-> req.response.status, input |-> req.input,
                job_reply |-> req.job_reply, resume_reply |-> req.resume_reply,
                narrative_reply |-> req.narrative_reply,
                result |-> req.response.result]
    /\ req' = IdleReq
    /\ UNCHANGED <<fp_up, poller, login, threads, score_vars, MATCHER_API_KEY, now, token_cache,
                   backend_vars>>

InitPair ==
    /\ fp_up \in BOOLEAN
    /\ ThreadsIdle
    /\ ScoreIdle
    /\ MATCHER_API_KEY = Key
    /\ now = 0
    /\ token_cache = [access_token |-> None, expires_at |-> 0]
    /\ req = IdleReq
    /\ prev = NoPrev
    /\ BackendIdle

NextPair ==
    \/ \E i \in PairRequests, seed \in HashSeeds : analyze_vacancy(i, seed)
    \/ \E outcome \in PairOAuthOutcomes : get_gigachat_token(outcome)
    \/ \E outcome \in PairOutcomes : call_gigachat(outcome)
    \/ rerun

SpecPair == InitPair /\ [][NextPair]_vars

-----------------------------------------------------------------------------
(* Claims about the matcher API, checked under Spec and SpecPair *)

Done == req.pc = "done"
LastCall == req.calls[Len(req.calls)]
UpstreamFailed == req.calls # <<>> /\ LastCall.outcome \notin {"ok", "content"}

IsListOfStr(x) == x.t = "list" /\ \A i \in DOMAIN x.v : x.v[i].t = "str"

WellTypedFacts(d) ==
    LET exp == DictGet(d, "experience_years")
    IN  /\ DictGet(d, "education").t = "str"
        /\ exp.t = "num" /\ exp.v >= 0
        /\ IsListOfStr(DictGet(d, "hard_skills"))
        /\ IsListOfStr(DictGet(d, "soft_skills"))

\* C2: for every LLM reply text, extract_structured_data returns a record
\* whose education is a string, whose experience_years is a non-negative
\* number and whose hard_skills and soft_skills are lists of strings.
C2_ExtractionWellTyped ==
    /\ req.job_reply # 0 => WellTypedFacts(req.job_data)
    /\ req.resume_reply # 0 => WellTypedFacts(req.resume_data)

SuccessWithScore(response) ==
    /\ response.status = 200
    /\ HasKey(response.result, "score")
    /\ HasKey(response.result, "score_raw")
    /\ HasKey(response.result, "matches")
    /\ Len(DictGet(response.result, "matches").v) = 4

\* C3: once calculate_score has produced a score, every outcome of the
\* completion call of the narrative step (an error of the call, an
\* unparseable reply, an empty reply) ends the request with a successful
\* result that holds score, score_raw and the four matches.
C3_NarrativeFailureKeepsScore ==
    (Done /\ req.scored /\ req.calls # <<>>
        /\ LastCall.to = "chat" /\ LastCall.step = "explain")
      => SuccessWithScore(req.response)

\* C5: a request whose caller authentication fails is answered as
\* unauthorized, and no token fetch and no completion call is made for it.
C5_UnauthorizedShortCircuits ==
    (Done /\ ~is_authorized(Requests[req.input].headers))
      => (req.response.status = 401 /\ req.calls = <<>>)

\* a readable request whose vacancy text or resume text, stripped, is shorter
\* than MIN_TEXT_LEN
ShortTexts(r) ==
    /\ r.readable /\ r.data.t = "dict"
    /\ LET v == DictGet(r.data, "vacancy_text")
           p == DictGet(r.data, "profile")
           t == IF p.t = "dict" THEN DictGet(p, "resume_text") ELSE JAbsent
       IN  /\ p.t \in {"dict", "absent", "null"}
           /\ ~StripError(v) /\ ~StripError(t)
           /\ \/ Len(Stripped(v)) < MIN_TEXT_LEN
              \/ Len(Stripped(t)) < MIN_TEXT_LEN

\* C6: an authenticated request whose vacancy text or resume text is shorter
\* than 100 characters is rejected with a validation error, and no token
\* fetch and no completion call is made for it.
C6_ShortTextsRejected ==
    (req.pc # "idle" /\ is_authorized(Requests[req.input].headers)
        /\ ShortTexts(Requests[req.input]))
      => (Done /\ req.response.status = 400 /\ req.calls = <<>>)

\* C7: when the token fetch or the completion call fails, the response is an
\* upstream-unavailable error: not the status of an internal server error
\* (500) and not that of a caller error (400, 401).
C7_UpstreamFailureDistinct ==
    (Done /\ UpstreamFailed) => req.response.status \notin {400, 401, 500}

\* C10: a step of the Structured Extractor or of the Narrative Generator is
\* reported as failed by its completion call only after the prompt was tried
\* on every candidate model.
C10_EveryCallRetried ==
    (Done /\ UpstreamFailed /\ LastCall.to = "chat")
      => \A m \in DOMAIN models_of(GIGACHAT_MODELS) :
            \E k \in DOMAIN req.calls :
               /\ req.calls[k].to = "chat"
               /\ req.calls[k].step = LastCall.step
               /\ req.calls[k].model = models_of(GIGACHAT_MODELS)[m]

\* the token the call found cached was declared to expire more than
\* TOKEN_MARGIN seconds after the call
FreshAtUse(u) ==
    u.cached /\ MS_PER_SECOND * u.at < u.expires_at - MS_PER_SECOND * TOKEN_MARGIN

\* C11: get_gigachat_token returns the cached token, without a request to the
\* OAuth endpoint, exactly when a token is cached and the clock is more than
\* 60 seconds before the expiry the endpoint declared for it; otherwise it
\* requests a new token.  A token within 60 seconds of its declared expiry,
\* or past it, is never returned from the cache.
C11_CachedTokenFresh ==
    /\ req.token_use.source = "cache" => FreshAtUse(req.token_use)
    /\ req.token_use.source = "oauth" => ~FreshAtUse(req.token_use)

FactKeys == {"education", "experience_years", "hard_skills", "soft_skills"}

\* x and y are the same JSON value
SameValue(x, y) == x.t = y.t /\ x.v = y.v

\* the object holds a key of a fact record with a value of another type
IllTyped(d) ==
    \/ HasKey(d, "education") /\ DictGet(d, "education").t # "str"
    \/ HasKey(d, "experience_years") /\ DictGet(d, "experience_years").t # "num"
    \/ HasKey(d, "hard_skills") /\ ~IsListOfStr(DictGet(d, "hard_skills"))
    \/ HasKey(d, "soft_skills") /\ ~IsListOfStr(DictGet(d, "soft_skills"))

\* data is what the claim expects of extract_structured_data on reply i
ExpectedFacts(i, data) ==
    LET parsed == extract_json_from_text(ReplyTexts[i])
    IN  IF parsed.raised # "" \/ IllTyped(parsed.value)
        THEN \A key \in FactKeys :
                SameValue(DictGet(data, key), DictGet(DefaultFacts, key))
        ELSE \A key \in FactKeys :
                SameValue(DictGet(data, key),
                          IF HasKey(parsed.value, key)
                          THEN DictGet(parsed.value, key)
                          ELSE DictGet(DefaultFacts, key))

\* C24: for a reply with no parseable JSON object, or with an object holding
\* a wrongly typed field, extract_structured_data returns the record of the
\* four defaults; for a valid object that lacks some keys, the missing keys
\* are defaulted and the present ones are kept.
C24_ExtractionDefaults ==
    /\ req.job_reply # 0 => ExpectedFacts(req.job_reply, req.job_data)
    /\ req.resume_reply # 0 => ExpectedFacts(req.resume_reply, req.resume_data)

OptionalKeys == {"company", "details", "pros_cons", "recommendation"}

\* the generic verdict of analyze_vacancy (src/server/app.py:472)
FallbackVerdict == JStr(<<"D", "o", "n", "e">>)

\* C25: when the narrative reply cannot be parsed, the result of a successful
\* request carries the generic fallback verdict and none of company,
\* details, pros_cons and recommendation; each of these four appears in a
\* result only with the value the narrative supplied for it.
C25_NarrativeOptional ==
    (Done /\ req.response.status = 200) =>
        LET parsed == extract_json_from_text(ReplyTexts[req.narrative_reply])
            result == req.response.result
        IN  /\ parsed.raised # "" =>
                  /\ SameValue(DictGet(result, "verdict"), FallbackVerdict)
                  /\ \A key \in OptionalKeys : ~HasKey(result, key)
            /\ \A key \in OptionalKeys :
                  HasKey(result, key) =>
                      /\ parsed.raised = ""
                      /\ HasKey(parsed.value, key)
                      /\ DictGet(result, key) = DictGet(parsed.value, key)

\* C25 witness: a successful request whose narrative reply is braces around
\* something that is not JSON
C25_Witness ==
    /\ Done /\ req.response.status = 200
    /\ ReplyTexts[req.narrative_reply] = <<Broken>>
    /\ req.score_result.score > 0

\* C30: the scoring stage cannot fail: once extract_structured_data has
\* returned the two records, calculate_score returns for them, whatever the
\* LLM replied.
C30_ScoringCannotFail ==
    req.resume_reply # 0 => req.scored

ScoreKeys == {"score", "score_raw", "matches"}
NarrativeKeys == {"verdict", "company", "details", "pros_cons", "recommendation"}

SameExtraction ==
    /\ Done /\ req.response.status = 200 /\ prev.status = 200
    /\ prev.input = req.input
    /\ prev.job_reply = req.job_reply
    /\ prev.resume_reply = req.resume_reply

\* C4: two requests that receive the same two extraction replies return the
\* same score, score_raw and matches whatever their narrative replies are,
\* and the result holds no key besides these three and verdict, company,
\* details, pros_cons and recommendation.
C4_NarrativeCannotChangeScore ==
    SameExtraction =>
        /\ \A key \in ScoreKeys :
              DictGet(req.response.result, key) = DictGet(prev.result, key)
        /\ \A i \in DOMAIN req.response.result.v :
              req.response.result.v[i][1] \in ScoreKeys \cup NarrativeKeys

\* C4 witness: the same extraction replies, a narrative reply with the
\* requested keys in one request and one that carries its own score, score_raw
\* and matches in the other
C4_Witness ==
    /\ SameExtraction
    /\ prev.narrative_reply = 10 /\ req.narrative_reply = 11
    /\ DictGet(req.response.result, "score").v < 10
    /\ HasKey(prev.result, "company") /\ ~HasKey(req.response.result, "company")

\* the steps of the completion requests of the current request, in the order
\* they were made
RECURSIVE ChatSteps(_)
ChatSteps(calls) ==
    IF calls = <<>> THEN <<>>
    ELSE IF Head(calls).to = "chat"
         THEN <<Head(calls).step>> \o ChatSteps(Tail(calls))
         ELSE ChatSteps(Tail(calls))

\* C31: a request answered with 200 has made exactly three completion
\* requests, for the vacancy, the resume and the narrative in that order; the
\* score exists only once both extractions have replied and exists whenever
\* the narrative request is made; the score_raw of the result is the number
\* that was written into the narrative prompt.
C31_ThreeCallsScoreBetween ==
    /\ (Done /\ req.response.status = 200) =>
          /\ ChatSteps(req.calls) = <<"vacancy", "resume", "explain">>
          /\ DictGet(req.response.result, "score_raw") = JNum(req.prompt.score_100)
          /\ DictGet(req.response.result, "score") = JNum(req.prompt.score_10)
    /\ req.scored =>
          /\ req.job_reply # 0 /\ req.resume_reply # 0
          /\ ChatSteps(req.calls) \in {<<"vacancy", "resume">>,
                                       <<"vacancy", "resume", "explain">>}
    /\ (req.step = "explain" /\ req.pc # "done") =>
          /\ req.scored
          /\ req.prompt = [score_100 |-> req.score_result.score,
                           score_10 |-> req.score_10]

\* a 200 whose three completion requests each followed an OAuth exchange or
\* a cache hit, with a score above zero in the prompt and in the result
C31_Witness ==
    /\ Done /\ req.response.status = 200
    /\ req.prompt.score_100 > 0
    /\ DictGet(req.response.result, "score_raw").v = req.prompt.score_100
    /\ Len(ChatSteps(req.calls)) = 3 /\ Len(req.calls) > 3

-----------------------------------------------------------------------------
(* The screener backend (src/backend/app.py): configuration and inputs *)

\* s.replace("\n", " ")
replace_lf(s) == [i \in DOMAIN s |-> IF s[i] = "LF" THEN " " ELSE s[i]]

\* values of GIGACHAT_MODELS: the default, a list with blanks and an empty
\* item, the empty string
ModelEnvs ==
    {GIGACHAT_MODELS,
     <<" ">> \o GigaChat_Pro \o <<" ", ",", ",">> \o GigaChat,
     <<>>}

\* the state file (STATE_PATH), as far as _get_gigachat_token reads it
NoToken == [gigachat_token |-> None, gigachat_exp |-> 0]

\* a session token: whether it has the form body.sig, whether sig is the HMAC
\* of body under SESSION_SECRET, and the exp of its payload
Session(dotted, signed, exp) ==
    [present |-> TRUE, dotted |-> dotted, signed |-> signed, exp |-> exp]
NoSession == [present |-> FALSE, dotted |-> FALSE, signed |-> FALSE, exp |-> 0]
GoodSession == Session(TRUE, TRUE, MaxNow)
ExpiredSession == Session(TRUE, TRUE, -1)
ForgedSession == Session(TRUE, FALSE, MaxNow)
MalformedSession == Session(FALSE, FALSE, 0)

\* _verify_session (src/backend/app.py:301): whether it returns a payload
_verify_session(token) ==
    /\ token.present /\ bcfg.SESSION_SECRET
    /\ token.dotted
    /\ token.signed
    /\ ~(token.exp < now)

BRequest(token, readable, data, stats_ok) ==
    [token |-> token, readable |-> readable, data |-> data, stats_ok |-> stats_ok]

BackendRequests ==
    << BRequest(GoodSession, TRUE,
                Body(JStr(PaddedText), Profile(LongText)), TRUE),
       BRequest(GoodSession, TRUE,
                JDict(<< <<"vacancy", JStr(LongText)>>, <<"resume", JStr(LongText)>>,
                         <<"profile", JStr(<<"c", "v">>)>> >>), TRUE),
       BRequest(NoSession, TRUE, Body(JStr(LongText), Profile(LongText)), TRUE),
       BRequest(ExpiredSession, TRUE, Body(JStr(LongText), Profile(LongText)), TRUE),
       BRequest(ForgedSession, TRUE, Body(JStr(LongText), Profile(LongText)), TRUE),
       BRequest(MalformedSession, FALSE, JNull, TRUE),
       BRequest(GoodSession, TRUE, Body(JStr(ShortText), Profile(LongText)), TRUE),
       BRequest(GoodSession, TRUE,
                Body(JStr(LongText), Profile(ShortText \o Blank)), TRUE),
       BRequest(GoodSession, TRUE, Body(JNum(5), Profile(LongText)), TRUE),
       BRequest(GoodSession, FALSE, JNull, TRUE),
       BRequest(GoodSession, TRUE, JList(<<JNum(1)>>), TRUE),
       BRequest(GoodSession, TRUE, Body(JStr(LongText), JStr(<<"c", "v">>)), TRUE),
       BRequest(GoodSession, TRUE,
                Body(JStr(LongText), Profile(LongText)), FALSE) >>

\* the text of a completion: segments as in the replies above, and a fence
\* ``` (with or without the word json) or a JSON value that is no object
Fence == [k |-> "fence", obj |-> JNull]
Value(x) == [k |-> "value", obj |-> x]

Answer == JDict(<< <<"summary", JStr(ok)>> >>)

Contents ==
    << <<Object(Answer)>>,
       <<Fence, Object(Answer), Fence>>,
       <<Prose, Object(Answer), Prose>>,
       <<>>,
       <<Value(JNull)>>,
       <<Value(JList(<<JNum(1)>>))>> >>

\* lines 556-559: content.strip(); a leading fence and a fence that ends the
\* text are removed by strip("`"), the word json by replace
unfenced(content) ==
    IF content # <<>> /\ content[1].k = "fence"
    THEN LET rest == Tail(content)
         IN  IF rest # <<>> /\ rest[Len(rest)].k = "fence"
             THEN SubSeq(rest, 1, Len(rest) - 1) ELSE rest
    ELSE content

\* _try_parse_json (src/backend/app.py:470): json.loads of the whole text;
\* the pattern of the second try, r"\{[\\s\\S]*\\}", asks for a backslash
\* before the closing brace and matches none of these texts.  None is JNull.
_try_parse_json(content) ==
    IF Len(content) = 1 /\ content[1].k \in {"object", "value"}
    THEN content[1].obj
    ELSE JNull

-----------------------------------------------------------------------------
(* Handler.do_POST for /api/analyze (src/backend/app.py:825) and
   call_gigachat with its model fallback (src/backend/app.py:484) *)

\* an error string: reason, or reason_code, or reason_code:msg
Reason(reason, code, msg) == [reason |-> reason, code |-> code, msg |-> msg]
NoReason == Reason("", 0, <<>>)
NoRaise == [exc |-> "", reason |-> NoReason]

\* no answer of the OAuth endpoint
NoOutcome == [kind |-> "none", code |-> 0, msg |-> "none", expires_at |-> 0, saved |-> TRUE]

\* oauth is the outcome of the OAuth request the call made, if it made one
IdleBreq ==
    [pc |-> "idle", input |-> 0, idx |-> 0, last_error |-> NoReason,
     attempts |-> <<>>, call |-> "none", raised |-> NoRaise, oauth |-> NoOutcome,
     response |-> [status |-> 0, error |-> NoReason, result |-> JNull]]

\* self._send_json(status, {"ok": False, "error": error})
BRespond(r, status, error) ==
    [r EXCEPT !.pc = "done",
              !.response = [status |-> status, error |-> error, result |-> JNull]]

\* an exception that leaves do_POST: the handler sends no response
Crash(r, exc) ==
    [r EXCEPT !.pc = "done", !.raised = [exc |-> exc, reason |-> NoReason]]

\* call_gigachat raises exc: the except clauses of do_POST
\* (src/backend/app.py:864-909)
CallRaises(r, exc, reason) ==
    LET ended == [r EXCEPT !.call = "raised",
                           !.raised = [exc |-> exc, reason |-> reason]]
    IN  IF exc = "RuntimeError" THEN BRespond(ended, 502, reason)
        ELSE BRespond(ended, 502, Reason("gigachat_unavailable", 0, <<>>))

\* the message of an HTTP error body, as json.loads(body).get(..., "") finds it
MsgText == <<"q", "LF", "x", " ">>
ErrorMessage(kind) ==
    CASE kind = "none" -> JStr(<<>>)
      [] kind = "text" -> JStr(MsgText)
      [] kind = "nonstr" -> JNull

\* str(x) of a text field; the repr of a value that is no str is short
str(x) == IF x.t = "str" THEN x.v ELSE <<"r", "e", "p", "r">>

\* x or y
Or(x, y) == IF Truthy(x) THEN x ELSE y

\* outcomes of the OAuth request of _get_gigachat_token
TokenOutcomes ==
    {[kind |-> "ok", code |-> 0, msg |-> "none", expires_at |-> e, saved |-> b] :
        e \in {0, 120000}, b \in BOOLEAN}
      \cup {[kind |-> "http", code |-> 401, msg |-> k, expires_at |-> 0, saved |-> TRUE] :
              k \in {"none", "text", "nonstr"}}
      \cup {[kind |-> k, code |-> 0, msg |-> "none", expires_at |-> 0, saved |-> TRUE] :
              k \in {"unavailable", "invalid"}}

\* outcomes of one completion request of call_gigachat
AttemptOutcomes ==
    {[kind |-> "http", code |-> 429, msg |-> k, content |-> 0] :
        k \in {"none", "text", "nonstr"}}
      \cup {[kind |-> k, code |-> 0, msg |-> "none", content |-> 0] :
              k \in {"transport", "bad_shape", "nonstr_content"}}
      \cup {[kind |-> "content", code |-> 0, msg |-> "none", content |-> i] :
              i \in DOMAIN Contents}

do_POST(i) ==
    /\ breq.pc = "idle"
    /\ LET r == BackendRequests[i]
           got == [IdleBreq EXCEPT !.input = i]
           data == IF r.readable THEN r.data ELSE JDict(<<>>)
           vacancy == strip(str(Or(DictGet(data, "vacancy"),
                                   Or(DictGet(data, "vacancy_text"), JStr(<<>>)))))
           profile == Or(DictGet(data, "profile"), JDict(<<>>))
           resume == strip(str(Or(DictGet(data, "resume"),
                                  Or(DictGet(profile, "resume_text"), JStr(<<>>)))))
       IN  breq' =
             IF ~_verify_session(r.token)
             THEN BRespond(got, 401, Reason("unauthorized", 0, <<>>))
             ELSE IF data.t # "dict" THEN Crash(got, "AttributeError")
             ELSE IF ~Truthy(DictGet(data, "resume")) /\ profile.t # "dict"
                  THEN Crash(got, "AttributeError")
             ELSE IF Len(vacancy) < MIN_TEXT_LEN \/ Len(resume) < MIN_TEXT_LEN
                  THEN BRespond(got, 400, Reason("text_too_short", 0, <<>>))
             ELSE IF ~r.stats_ok THEN Crash(got, "OSError")
             ELSE [got EXCEPT !.pc = "token", !.call = "running"]
    /\ UNCHANGED <<fp_up, poller, login, threads, score_vars, server_vars, bcfg>>

\* the error string of an HTTP error: code, or code:msg for a message that is
\* not blank after msg.replace("\n", " ").strip()
\* (src/backend/app.py:453-455, 542-543)
HttpReason(reason, code, msg) == Reason(reason, code, strip(replace_lf(msg.v)))

\* line 510 and the loop: with the token, the first model or, for an empty
\* list, raise RuntimeError(last_error or "gigachat_failed")
start_loop(r) ==
    IF models_of(bcfg.GIGACHAT_MODELS) = <<>>
    THEN CallRaises(r, "RuntimeError", Reason("gigachat_failed", 0, <<>>))
    ELSE [r EXCEPT !.pc = "attempt", !.idx = 1]

\* _get_gigachat_token (src/backend/app.py:421), called by call_gigachat
_get_gigachat_token(outcome) ==
    /\ breq.pc = "token"
    /\ LET state == bcfg.state
           msg == ErrorMessage(outcome.msg)
           exp == IF outcome.expires_at # 0 THEN outcome.expires_at \div 1000 ELSE 0
           fresh == [gigachat_token |-> "token",
                     gigachat_exp |-> IF exp # 0 THEN exp ELSE now + 1800]
           asked == [breq EXCEPT !.oauth = outcome]
       IN  IF ~bcfg.GIGACHAT_AUTH_B64
           THEN /\ breq' = CallRaises(breq, "RuntimeError",
                                      Reason("missing_gigachat_auth", 0, <<>>))
                /\ UNCHANGED bcfg
           ELSE IF state.gigachat_token # None /\ now < state.gigachat_exp - TOKEN_MARGIN
           THEN /\ breq' = start_loop(breq)
                /\ UNCHANGED bcfg
           ELSE CASE outcome.kind = "http" ->
                       /\ breq' = IF msg.t # "str"
                                  THEN CallRaises(asked, "AttributeError", NoReason)
                                  ELSE CallRaises(asked, "RuntimeError",
                                           HttpReason("gigachat_auth", outcome.code, msg))
                       /\ UNCHANGED bcfg
                  [] outcome.kind = "unavailable" ->
                       /\ breq' = CallRaises(asked, "RuntimeError",
                                             Reason("gigachat_auth_unavailable", 0, <<>>))
                       /\ UNCHANGED bcfg
                  [] outcome.kind = "invalid" ->
                       /\ breq' = CallRaises(asked, "RuntimeError",
                                             Reason("gigachat_auth_invalid", 0, <<>>))
                       /\ UNCHANGED bcfg
                  [] outcome.kind = "ok" ->
                       IF outcome.saved
                       THEN /\ bcfg' = [bcfg EXCEPT !.state = fresh]
                            /\ breq' = start_loop(asked)
                       ELSE /\ breq' = CallRaises(asked, "OSError", NoReason)
                            /\ UNCHANGED bcfg
    /\ UNCHANGED <<fp_up, poller, login, threads, score_vars, server_vars>>

\* last_error = reason; continue -- and, after the last model,
\* raise RuntimeError(last_error or "gigachat_failed")
next_model(r, reason) ==
    IF r.idx = Len(models_of(bcfg.GIGACHAT_MODELS))
    THEN CallRaises([r EXCEPT !.last_error = reason], "RuntimeError", reason)
    ELSE [r EXCEPT !.last_error = reason, !.idx = r.idx + 1]

\* one turn of the loop of call_gigachat (src/backend/app.py:513-565): the
\* completion request to models[idx] and the code that runs on its outcome
call_gigachat_attempt(outcome) ==
    /\ breq.pc = "attempt"
    /\ LET model == models_of(bcfg.GIGACHAT_MODELS)[breq.idx]
           tried == [breq EXCEPT !.attempts = Append(@,
                        [model |-> model, kind |-> outcome.kind,
                         code |-> outcome.code, msg |-> outcome.msg,
                         content |-> outcome.content])]
           msg == ErrorMessage(outcome.msg)
           parsed == _try_parse_json(unfenced(Contents[outcome.content]))
       IN  breq' =
             CASE outcome.kind = "http" ->
                    IF msg.t # "str" THEN CallRaises(tried, "AttributeError", NoReason)
                    ELSE next_model(tried, HttpReason("gigachat_http", outcome.code, msg))
               [] outcome.kind = "transport" ->
                    next_model(tried, Reason("gigachat_unavailable", 0, <<>>))
               [] outcome.kind = "bad_shape" ->
                    next_model(tried, Reason("gigachat_bad_response", 0, <<>>))
               [] outcome.kind = "nonstr_content" ->
                    CallRaises(tried, "AttributeError", NoReason)
               [] outcome.kind = "content" ->
                    IF parsed.t # "null"
                    THEN [tried EXCEPT !.pc = "done", !.call = "returned",
                                       !.response = [status |-> 200, error |-> NoReason,
                                                     result |-> parsed]]
                    ELSE next_model(tried, Reason("gigachat_invalid_json", 0, <<>>))
    /\ UNCHANGED <<fp_up, poller, login, threads, score_vars, server_vars, bcfg>>

\* the handler returns; the server takes the next request
finish ==
    /\ breq.pc = "done"
    /\ breq' = IdleBreq
    /\ UNCHANGED <<fp_up, poller, login, threads, score_vars, server_vars, bcfg>>

InitBackend ==
    /\ fp_up = FALSE
    /\ ThreadsIdle
    /\ ScoreIdle
    /\ ServerIdle
    /\ bcfg \in [GIGACHAT_MODELS : ModelEnvs, GIGACHAT_AUTH_B64 : BOOLEAN,
                 SESSION_SECRET : BOOLEAN,
                 state : {NoToken,
                          [gigachat_token |-> "token", gigachat_exp |-> 30],
                          [gigachat_token |-> "token", gigachat_exp |-> 120]}]
    /\ breq = IdleBreq

NextBackend ==
    \/ \E i \in DOMAIN BackendRequests : do_POST(i)
    \/ \E outcome \in TokenOutcomes : _get_gigachat_token(outcome)
    \/ \E outcome \in AttemptOutcomes : call_gigachat_attempt(outcome)
    \/ finish

SpecBackend == InitBackend /\ [][NextBackend]_vars

-----------------------------------------------------------------------------
(* Claims about the model fallback, checked under SpecBackend *)

Models == models_of(bcfg.GIGACHAT_MODELS)

\* the loop of call_gigachat was entered and the call has ended
LoopEnded == breq.idx >= 1 /\ breq.call \in {"returned", "raised"}

\* the attempt got a completion that _try_parse_json parses
Succeeded(a) ==
    a.kind = "content" /\ _try_parse_json(unfenced(Contents[a.content])).t # "null"

\* the reason an attempt that did not succeed is expected to leave
ReasonOfAttempt(a) ==
    CASE a.kind = "http" ->
            Reason("gigachat_http", a.code,
                   IF a.msg = "text" THEN strip(replace_lf(MsgText)) ELSE <<>>)
      [] a.kind = "transport" -> Reason("gigachat_unavailable", 0, <<>>)
      [] a.kind \in {"bad_shape", "nonstr_content"} ->
            Reason("gigachat_bad_response", 0, <<>>)
      [] a.kind = "content" -> Reason("gigachat_invalid_json", 0, <<>>)

\* C8: the fallback call tries the configured models in list order, one
\* attempt each; every failed attempt (HTTP error, transport error, malformed
\* response shape, unparseable content) is followed by an attempt on the next
\* model, and the call returns the parsed answer of the first attempt that
\* succeeds, with no attempt after it.
C8_FallbackInOrder ==
    /\ \A k \in DOMAIN breq.attempts :
          /\ k <= Len(Models)
          /\ breq.attempts[k].model = Models[k]
          /\ k < Len(breq.attempts) => ~Succeeded(breq.attempts[k])
    /\ LoopEnded =>
          IF \E k \in DOMAIN breq.attempts : Succeeded(breq.attempts[k])
          THEN /\ breq.call = "returned"
               /\ breq.response.status = 200
               /\ breq.response.result.t # "null"
          ELSE /\ breq.call = "raised"
               /\ Len(breq.attempts) = Len(Models)

\* C9: when every configured model has been tried and has failed, the call
\* raises one RuntimeError whose reason is that of the last attempt (the HTTP
\* status and message, or bad_response, invalid_json, unavailable): not an
\* empty reason and not the reason of an earlier attempt.
C9_LastReasonRaised ==
    (LoopEnded /\ Len(breq.attempts) = Len(Models)
        /\ \A k \in DOMAIN breq.attempts : ~Succeeded(breq.attempts[k]))
      => /\ breq.call = "raised"
         /\ breq.raised.exc = "RuntimeError"
         /\ breq.raised.reason.reason # ""
         /\ breq.raised.reason = ReasonOfAttempt(breq.attempts[Len(breq.attempts)])

\* the error codes of a failure of the token endpoint and of the completion
\* endpoint (src/backend/app.py:423-462, 543-567)
TokenReasons ==
    {"missing_gigachat_auth", "gigachat_auth", "gigachat_auth_unavailable",
     "gigachat_auth_invalid"}
CompletionReasons ==
    {"gigachat_http", "gigachat_unavailable", "gigachat_bad_response",
     "gigachat_invalid_json", "gigachat_failed"}

\* the OAuth request of the call failed
TokenRequestFailed == breq.oauth.kind \in {"http", "unavailable", "invalid"}

\* C13: when the request to the token endpoint fails, the analyze operation
\* answers with the error code _get_gigachat_token raised, a code of the
\* token endpoint's class and of none of the completion endpoint's, and no
\* completion request has been made.
C13_TokenFailureDistinct ==
    (breq.pc = "done" /\ TokenRequestFailed)
      => /\ breq.attempts = <<>>
         /\ breq.raised.exc = "RuntimeError"
         /\ breq.response.error = breq.raised.reason
         /\ breq.response.error.reason \in TokenReasons \ CompletionReasons

\* C14: a failure of the analytics counter update (as of a request-log write
\* or of the history insert) does not fail the request: the caller of a valid
\* request still gets a response, that of call_gigachat's outcome.
C14_SideEffectsNeverFail ==
    (breq.pc = "done" /\ ~BackendRequests[breq.input].stats_ok)
      => (breq.response.status # 0 /\ breq.raised.exc # "OSError")

-----------------------------------------------------------------------------
(* Concurrent calls of _get_gigachat_token (src/backend/app.py:421).  The
   backend serves each request on a thread of its own (ThreadingHTTPServer,
   line 942); the token is kept in the state file, which _get_gigachat_token
   reads and writes without holding STATE_LOCK.  A thread runs the function
   in three steps: read the file and test the token, request a token, write
   the file. *)

NumThreads == 2     \* handler threads running at once

Threads == 1..NumThreads

IdleThread == [pc |-> "idle", state |-> NoToken, payload |-> NoOutcome, exc |-> ""]

\* lines 422-430: the guard on GIGACHAT_AUTH_B64, _load_json, the test of the
\* token read
token_check(t) ==
    /\ threads[t].pc = "idle"
    /\ LET state == bcfg.state
           th == [IdleThread EXCEPT !.state = state]
       IN  threads' = [threads EXCEPT ![t] =
              IF ~bcfg.GIGACHAT_AUTH_B64
              THEN [th EXCEPT !.pc = "raised", !.exc = "RuntimeError"]
              ELSE IF state.gigachat_token # None
                      /\ now < state.gigachat_exp - TOKEN_MARGIN
                   THEN [th EXCEPT !.pc = "returned"]
                   ELSE [th EXCEPT !.pc = "request"]]
    /\ UNCHANGED <<fp_up, poller, login, score_vars, server_vars, backend_vars>>

\* lines 432-462: the request to the OAuth endpoint and the reading of its
\* answer
token_request(t, outcome) ==
    /\ threads[t].pc = "request"
    /\ threads' = [threads EXCEPT ![t] =
          IF outcome.kind = "ok"
          THEN [@ EXCEPT !.pc = "save", !.payload = outcome]
          ELSE [@ EXCEPT !.pc = "raised", !.payload = outcome,
                         !.exc = IF outcome.kind = "http" /\ outcome.msg = "nonstr"
                                 THEN "AttributeError" ELSE "RuntimeError"]]
    /\ UNCHANGED <<fp_up, poller, login, score_vars, server_vars, backend_vars>>

\* lines 464-467: the state read at line 425, with the new token, replaces
\* the file
token_save(t) ==
    /\ threads[t].pc = "save"
    /\ LET th == threads[t]
           exp == th.payload.expires_at \div MS_PER_SECOND
       IN  IF th.payload.saved
           THEN /\ bcfg' = [bcfg EXCEPT !.state =
                               [gigachat_token |-> "token",
                                gigachat_exp |-> IF exp # 0 THEN exp ELSE now + 1800]]
                /\ threads' = [threads EXCEPT ![t].pc = "returned"]
           ELSE /\ threads' = [threads EXCEPT ![t].pc = "raised", ![t].exc = "OSError"]
                /\ UNCHANGED bcfg
    /\ UNCHANGED <<fp_up, poller, login, score_vars, server_vars, breq>>

\* the call has ended; the thread serves its next request
token_return(t) ==
    /\ threads[t].pc \in {"returned", "raised"}
    /\ threads' = [threads EXCEPT ![t] = IdleThread]
    /\ UNCHANGED <<fp_up, poller, login, score_vars, server_vars, backend_vars>>

\* time passes
TickThreads ==
    /\ now + TickStep <= MaxNow
    /\ now' = now + TickStep
    /\ UNCHANGED <<fp_up, poller, login, score_vars, MATCHER_API_KEY, token_cache, req, prev,
                   backend_vars, threads>>

InitThreads ==
    /\ fp_up = FALSE
    /\ poller = None /\ login = None
    /\ ScoreIdle
    /\ ServerIdle
    /\ bcfg \in [GIGACHAT_MODELS : {GIGACHAT_MODELS}, GIGACHAT_AUTH_B64 : BOOLEAN,
                 SESSION_SECRET : {TRUE},
                 state : {NoToken,
                          [gigachat_token |-> "token", gigachat_exp |-> 90]}]
    /\ breq = IdleBreq
    /\ threads = [t \in Threads |-> IdleThread]

NextThreads ==
    \/ \E t \in Threads : token_check(t)
    \/ \E t \in Threads, outcome \in TokenOutcomes : token_request(t, outcome)
    \/ \E t \in Threads : token_save(t)
    \/ \E t \in Threads : token_return(t)
    \/ TickThreads

SpecThreads == InitThreads /\ [][NextThreads]_vars

\* thread t is between its test of the cached token and its write of the new
\* one
Refreshing(t) == threads[t].pc \in {"request", "save"}

\* C12: the check-then-refresh of the cached token is mutually exclusive:
\* while one thread that found no valid token is requesting or storing a new
\* one, no other thread is doing the same.
C12_RefreshExclusive ==
    \A t1, t2 \in Threads : (Refreshing(t1) /\ Refreshing(t2)) => t1 = t2

-----------------------------------------------------------------------------
(* Concurrent calls of get_gigachat_token of the matcher API
   (src/server/app.py:90).  The development server started by app.run
   (line 541) serves each request on a thread of its own; token_cache is a
   module-level dict that the function tests and assigns without a lock,
   one key per statement. *)

\* two answers of the OAuth endpoint that differ in both fields, and a
\* refusal
TokenA == [kind |-> "ok", access_token |-> "A", expires_at |-> 90 * MS_PER_SECOND]
TokenB == [kind |-> "ok", access_token |-> "B", expires_at |-> 150 * MS_PER_SECOND]
Refusal == [kind |-> "http", access_token |-> None, expires_at |-> 0]
CacheOutcomes == {TokenA, TokenB, Refusal}

IdleWorker == [pc |-> "idle", data |-> Refusal]

\* line 93: the test of the cached token
cache_check(t) ==
    /\ threads[t].pc = "idle"
    /\ threads' = [threads EXCEPT ![t].pc =
          IF token_cache.access_token # None
             /\ now < token_cache.expires_at - TOKEN_MARGIN
          THEN "returned" ELSE "request"]
    /\ UNCHANGED <<fp_up, poller, login, score_vars, server_vars, backend_vars>>

\* lines 102-118: the request to the OAuth endpoint and response.json()
cache_request(t, outcome) ==
    /\ threads[t].pc = "request"
    /\ threads' = [threads EXCEPT ![t] =
          [pc |-> IF outcome.kind = "ok" THEN "set_token" ELSE "raised",
           data |-> outcome]]
    /\ UNCHANGED <<fp_up, poller, login, score_vars, server_vars, backend_vars>>

\* line 119: token_cache['access_token'] = data['access_token']
cache_set_token(t) ==
    /\ threads[t].pc = "set_token"
    /\ token_cache' = [token_cache EXCEPT !.access_token = threads[t].data.access_token]
    /\ threads' = [threads EXCEPT ![t].pc = "set_expiry"]
    /\ UNCHANGED <<fp_up, poller, login, score_vars, MATCHER_API_KEY, now, req, prev, backend_vars>>

\* line 120: token_cache['expires_at'] = data['expires_at']
cache_set_expiry(t) ==
    /\ threads[t].pc = "set_expiry"
    /\ token_cache' = [token_cache EXCEPT !.expires_at = threads[t].data.expires_at]
    /\ threads' = [threads EXCEPT ![t].pc = "returned"]
    /\ UNCHANGED <<fp_up, poller, login, score_vars, MATCHER_API_KEY, now, req, prev, backend_vars>>

\* the call has ended; the thread serves its next request
cache_return(t) ==
    /\ threads[t].pc \in {"returned", "raised"}
    /\ threads' = [threads EXCEPT ![t] = IdleWorker]
    /\ UNCHANGED <<fp_up, poller, login, score_vars, server_vars, backend_vars>>

InitCache ==
    /\ fp_up = FALSE
    /\ poller = None /\ login = None
    /\ ScoreIdle
    /\ MATCHER_API_KEY = <<>> /\ now = 0
    /\ token_cache = [access_token |-> None, expires_at |-> 0]
    /\ req = None /\ prev = None
    /\ BackendIdle
    /\ threads = [t \in Threads |-> IdleWorker]

NextCache ==
    \/ \E t \in Threads : cache_check(t)
    \/ \E t \in Threads, outcome \in CacheOutcomes : cache_request(t, outcome)
    \/ \E t \in Threads : cache_set_token(t)
    \/ \E t \in Threads : cache_set_expiry(t)
    \/ \E t \in Threads : cache_return(t)
    \/ TickThreads

SpecCache == InitCache /\ [][NextCache]_vars

\* no thread is between its request and the end of its two assignments
CacheQuiet == \A t \in Threads : threads[t].pc \in {"idle", "returned", "raised"}

\* C33: once the concurrent refreshes have ended, token_cache holds the
\* access token and the expiry of one and the same OAuth response (or is
\* still empty); it never pairs the token of one with the expiry of another.
C33_CacheFromOneResponse ==
    CacheQuiet =>
        \/ token_cache = [access_token |-> None, expires_at |-> 0]
        \/ \E r \in {TokenA, TokenB} :
               token_cache = [access_token |-> r.access_token,
                              expires_at |-> r.expires_at]

-----------------------------------------------------------------------------
(* The Telegram login handshake of the backend and the state file
   (src/backend/app.py).  STATE_PATH holds the login states, the Telegram
   update offset, the visits last seen and the GigaChat token in one JSON
   object.  _update_state (line 232) loads, changes and saves it while it
   holds STATE_LOCK: login start, the approval by poll_telegram, the offset
   written by poll_telegram and the status query are therefore one step
   each.  _get_gigachat_token (line 421) and should_count_visit (line 583)
   load the file and save it later without the lock: two steps of a
   handler thread, with anything in between. *)

LOGIN_TTL_SEC == 30     \* os.getenv("LOGIN_TTL_SEC"), seconds
MaxLogins == 1          \* login states created by login start
MaxUpdates == 2         \* Telegram updates handled by poll_telegram

StateIds == 1..MaxLogins

NoEntry == [status |-> "absent", exp |-> 0]

\* {"last_seen": {}, "offset": 0}, the default of _load_json, after
\* state.setdefault("login", {}).setdefault("states", {})
EmptyState ==
    [login |-> [s \in StateIds |-> NoEntry], offset |-> 0,
     last_seen |-> FALSE, gigachat_token |-> None]

\* _cleanup_login_states (line 242): states.pop(key) when exp and exp < now
_cleanup_login_states(state) ==
    [state EXCEPT !.login =
        [s \in StateIds |-> IF @[s].exp # 0 /\ @[s].exp < now THEN NoEntry ELSE @[s]]]

\* the end of _update_state (line 238): _save_json(STATE_PATH, state); log
\* is the record of the handshake after this call, which notes what the
\* call wrote
_update_state(state, log) ==
    /\ bcfg' = [bcfg EXCEPT !.state = state]
    /\ login' = [log EXCEPT !.written = [login |-> state.login, offset |-> state.offset]]

\* do_POST /api/tg/login/start (lines 771-796); secrets.token_urlsafe gives
\* a state never given before
login_start(s) ==
    /\ login.exp_of[s] = 0
    /\ \A r \in StateIds : r < s => login.exp_of[r] # 0
    /\ LET state == _cleanup_login_states(bcfg.state)
           exp == now + LOGIN_TTL_SEC
       IN  _update_state([state EXCEPT !.login[s] = [status |-> "pending", exp |-> exp]],
                         [login EXCEPT !.exp_of[s] = exp])
    /\ UNCHANGED <<fp_up, score_vars, server_vars, breq, threads, poller>>

\* poll_telegram on one update (lines 628-646): for the text '/start
\* <payload>' _approve_login_state (line 251) runs; payload 0 stands for
\* any other message
poll_message(payload) ==
    /\ poller.pc = "idle" /\ poller.update_id < MaxUpdates
    /\ poller' = [poller EXCEPT !.pc = "offset"]
    /\ IF payload = 0
       THEN UNCHANGED <<bcfg, login>>
       ELSE LET state == _cleanup_login_states(bcfg.state)
                entry == state.login[payload]
                found == entry.status # "absent" /\ entry.exp >= now
            IN  IF found
                THEN _update_state([state EXCEPT !.login[payload].status = "approved"],
                         [login EXCEPT !.approved[payload] =
                             IF login.exp_of[payload] # 0 /\ now <= login.exp_of[payload]
                             THEN "in_time" ELSE "late"])
                ELSE _update_state(state, login)
    /\ UNCHANGED <<fp_up, score_vars, server_vars, breq, threads>>

\* line 647: _update_state(lambda s: s.__setitem__("offset", update_id + 1))
poll_offset ==
    /\ poller.pc = "offset"
    /\ poller' = [pc |-> "idle", update_id |-> poller.update_id + 1]
    /\ _update_state([bcfg.state EXCEPT !.offset = poller.update_id + 1], login)
    /\ UNCHANGED <<fp_up, score_vars, server_vars, breq, threads>>

\* do_GET /api/tg/login/status (lines 701-730)
login_status(s) ==
    /\ login.issued[s] < 2
    /\ LET state == _cleanup_login_states(bcfg.state)
           entry == state.login[s]
           status == IF entry.status = "absent" THEN "not_found"
                     ELSE IF entry.status # "approved" THEN "pending"
                     ELSE "ok"
           asked == [login EXCEPT !.last_query =
                        [state |-> s, status |-> status,
                         issued_before |-> login.issued[s] > 0,
                         expired |-> login.exp_of[s] # 0 /\ now > login.exp_of[s]]]
       IN  IF status = "ok"
           THEN _update_state([state EXCEPT !.login[s] = NoEntry],
                              [asked EXCEPT !.issued[s] = @ + 1])
           ELSE _update_state(state, asked)
    /\ UNCHANGED <<fp_up, score_vars, server_vars, breq, threads, poller>>

IdleWriter == [pc |-> "idle", state |-> EmptyState]

\* _get_gigachat_token, lines 425-430: the file is read; a thread that finds
\* no token goes on to request one
token_load(t) ==
    /\ threads[t].pc = "idle"
    /\ bcfg.state.gigachat_token = None
    /\ threads' = [threads EXCEPT ![t] = [pc |-> "token", state |-> bcfg.state]]
    /\ UNCHANGED <<fp_up, score_vars, server_vars, backend_vars, poller, login>>

\* should_count_visit, lines 584-589: the file is read; a visitor not seen
\* before is to be stamped
visit_load(t) ==
    /\ threads[t].pc = "idle"
    /\ ~bcfg.state.last_seen
    /\ threads' = [threads EXCEPT ![t] = [pc |-> "visit", state |-> bcfg.state]]
    /\ UNCHANGED <<fp_up, score_vars, server_vars, backend_vars, poller, login>>

\* _save_json(STATE_PATH, state) of lines 466 and 591: the state read
\* earlier, with the token or the stamp set, replaces the file
_save_json(t) ==
    /\ threads[t].pc \in {"token", "visit"}
    /\ bcfg' = [bcfg EXCEPT !.state =
                  IF threads[t].pc = "token"
                  THEN [threads[t].state EXCEPT !.gigachat_token = "token"]
                  ELSE [threads[t].state EXCEPT !.last_seen = TRUE]]
    /\ threads' = [threads EXCEPT ![t] = IdleWriter]
    /\ UNCHANGED <<fp_up, score_vars, server_vars, breq, poller, login>>

NoQuery == [state |-> 0, status |-> "", issued_before |-> FALSE, expired |-> FALSE]

InitLogin ==
    /\ fp_up = FALSE
    /\ ScoreIdle
    /\ ServerIdle
    /\ bcfg = [state |-> EmptyState]
    /\ breq = None
    /\ threads = [t \in Threads |-> IdleWriter]
    /\ poller = [pc |-> "idle", update_id |-> 0]
    /\ login = [exp_of |-> [s \in StateIds |-> 0],
                approved |-> [s \in StateIds |-> "no"],
                issued |-> [s \in StateIds |-> 0],
                last_query |-> NoQuery,
                written |-> [login |-> EmptyState.login, offset |-> 0]]

NextLogin ==
    \/ \E s \in StateIds : login_start(s)
    \/ \E payload \in 0..MaxLogins : poll_message(payload)
    \/ poll_offset
    \/ \E s \in StateIds : login_status(s)
    \/ \E t \in Threads : token_load(t)
    \/ \E t \in Threads : visit_load(t)
    \/ \E t \in Threads : _save_json(t)
    \/ TickThreads

SpecLogin == InitLogin /\ [][NextLogin]_vars

\* C34: what _update_state wrote to the state file, login states and update
\* offset, is what the file holds: no save of _get_gigachat_token or
\* should_count_visit removes it or puts an older value back.
C34_UpdateStateWritesKept ==
    /\ bcfg.state.login = login.written.login
    /\ bcfg.state.offset = login.written.offset

\* C35: a login state gets a session token at most once, and only after
\* login start created it and a /start message approved it no later than
\* its expiry; a status query for a state that has got its token, or that
\* has expired, is answered not_found.
C35_TokenOncePerApprovedState ==
    /\ \A s \in StateIds :
          /\ login.issued[s] <= 1
          /\ login.issued[s] > 0 =>
                login.exp_of[s] # 0 /\ login.approved[s] = "in_time"
    /\ (login.last_query.issued_before \/ login.last_query.expired) =>
          login.last_query.status = "not_found"

=============================================================================
